---- MODULE Spec2Model ----
(***************************************************************************)
(* Badminton court booking API: the Express controllers, the stored        *)
(* procedures they call, the BEFORE/AFTER triggers and the table           *)
(* constraints (unique keys, NOT NULL, foreign keys with ON DELETE         *)
(* CASCADE) of the MySQL schema.                                           *)
(*                                                                         *)
(* The repository ships two installation scripts for the same database:    *)
(* minimal_schema.sql and badminton_booking_system(all).sql.  They define  *)
(* the same tables and procedures; the second one also creates the         *)
(* trigger tr_booking_status_update, the first one only drops it.  Which   *)
(* script was installed is fixed at Init and never changes.                *)
(*                                                                         *)
(* Abstractions: TIME values are integers 0..MaxTime, DATE values are day  *)
(* numbers 0..MaxDay, DECIMAL prices are integers, free text columns       *)
(* (description) that no procedure ever tests are left out, timestamps     *)
(* (created_at, updated_at) are left out.                                  *)
(***************************************************************************)
EXTENDS Integers, FiniteSets, Sequences, TLC

(* ------------------------------ bounds -------------------------------- *)
MaxCourts == 2
MaxSlots == 2
MaxBookings == 2
MaxDay == 1
MaxTime == 2
MaxPrice == 2
NumCallers == 2

(* ----------------------- SQL / JavaScript values ---------------------- *)
\* SQL NULL and JavaScript undefined/null of a string-valued field
NullStr == "NULL"
\* SQL NULL and JavaScript undefined/null of a number-valued field
NullNum == -1

\* JavaScript truthiness of a request field (used by `!x` and `x || null`)
TruthyStr(x) == x # NullStr /\ x # ""
TruthyNum(x) == x # NullNum /\ x # 0

\* `x || null`
OrNullStr(x) == IF TruthyStr(x) THEN x ELSE NullStr
OrNullNum(x) == IF TruthyNum(x) THEN x ELSE NullNum

\* mutant of CoalesceStr: the parameter is written also when it is NULL
CoalesceStr_param(p, col) == p

\* SQL COALESCE(p, col)
CoalesceStr(p, col) == IF p # NullStr THEN p ELSE col
CoalesceNum(p, col) == IF p # NullNum THEN p ELSE col

\* SQL TRIM(x) = '' for the customer names of the model
TrimIsEmpty(x) == x \in {"", " "}

\* an absent or empty request field that would hold a text: falsy in JavaScript
NoText == <<>>

\* a time of day as the request spells it, "H:00" or "0H:00", as the
\* sequence of its UTF-16 code units ('0' is 48, ':' is 58)
HHMM(padded, h) ==
    IF padded THEN <<48, 48 + h, 58, 48, 48>> ELSE <<48 + h, 58, 48, 48>>

\* the TIME value MySQL reads from the text: the hours before the ':'
TimeOf(text) ==
    IF text[2] = 58 THEN text[1] - 48 ELSE (text[1] - 48) * 10 + (text[2] - 48)

\* JavaScript's a < b on two strings: code unit by code unit, a proper
\* prefix sorts first
RECURSIVE StrLess(_, _)
StrLess(a, b) ==
    IF b = <<>> THEN FALSE
    ELSE IF a = <<>> THEN TRUE
    ELSE IF Head(a) # Head(b) THEN Head(a) < Head(b)
    ELSE StrLess(Tail(a), Tail(b))

\* JavaScript's a >= b on two strings
StrGE(a, b) == ~StrLess(a, b)

\* a TIME parameter: NULL for an absent field, else the value of the text
TimeParam(x) == IF x = NoText THEN NullNum ELSE TimeOf(x)

(* ------------------------------ domains ------------------------------- *)
SchemaScripts == {"minimal", "all"}
AdminIds == {1, 2}
CourtStatus == {"active", "maintenance", "inactive"}
SlotStatus == {"active", "inactive"}
PaymentStatus == {"paid", "unpaid", "partial"}
BookingStatus == {"confirmed", "cancelled", "completed"}

CourtIdRange == 1..MaxCourts
SlotIdRange == 1..MaxSlots
BookingIdRange == 1..MaxBookings
Days == 0..MaxDay
Times == 0..MaxTime
Prices == 1..MaxPrice

(* ------------------------------- state -------------------------------- *)
VARIABLES
    schema,         \* which installation script created the database
    today,          \* CURDATE()
    courts,         \* table courts:     court_id   -> row
    nextCourtId,    \* AUTO_INCREMENT of courts
    time_slots,     \* table time_slots: slot_id    -> row
    nextSlotId,     \* AUTO_INCREMENT of time_slots
    bookings,       \* table bookings:   booking_id -> row
    nextBookingId,  \* AUTO_INCREMENT of bookings
    calls,          \* sp_create_booking invocations in flight (SpecRace)
    result          \* the HTTP response of the last request

vars == <<schema, today, courts, nextCourtId, time_slots, nextSlotId,
          bookings, nextBookingId, calls, result>>

tables == <<courts, nextCourtId, time_slots, nextSlotId, bookings, nextBookingId>>

RespData(op, http, msg, data) == [op |-> op, http |-> http, msg |-> msg, data |-> data]

\* a response whose data the model does not follow
Resp(op, http, msg) == RespData(op, http, msg, <<>>)

\* a function with one more / one less key
Put(f, k, v) == [x \in DOMAIN f \cup {k} |-> IF x = k THEN v ELSE f[x]]
Drop(f, ks) == [x \in DOMAIN f \ ks |-> f[x]]

NoRows == [x \in {} |-> 0]

(* ------------------------- server error texts ------------------------- *)
ErDupCourtName == "Duplicate entry for key 'courts.court_name'"
ErDupTimeSlot == "Duplicate entry for key 'time_slots.unique_time_slot'"
ErDupBooking == "Duplicate entry for key 'bookings.unique_booking'"
ErTotalNull == "Column 'total_amount' cannot be null"
ErFkSlot == "Cannot add or update a child row: a foreign key constraint fails (FOREIGN KEY (slot_id) REFERENCES time_slots (slot_id))"
ErFkAdmin == "Cannot add or update a child row: a foreign key constraint fails (FOREIGN KEY (created_by) REFERENCES admins (admin_id))"

(* --------------------------- SIGNAL texts ----------------------------- *)
SigSlotTaken == "Slot sudah dibooking untuk tanggal tersebut"
SigCourtMissing == "Lapangan tidak ditemukan atau tidak aktif"
SigPastDate == "Tanggal booking tidak boleh tanggal lampau"
SigCourtInactive == "Lapangan tidak aktif"
SigSlotInactive == "Slot waktu tidak aktif"
SigNameBlank == "Nama customer harus diisi"
SigTerminal == "Booking yang sudah dibatalkan tidak bisa diubah statusnya"
SigOverlap == "Time slot overlaps with existing active slot"
SigRange == "Start time must be before end time"

(* ------------------------------- Init --------------------------------- *)
Init ==
    /\ schema \in SchemaScripts
    /\ today = 0
    /\ courts = NoRows
    /\ nextCourtId = 1
    /\ time_slots = NoRows
    /\ nextSlotId = 1
    /\ bookings = NoRows
    /\ nextBookingId = 1
    /\ calls = NoRows
    /\ result = Resp("none", 0, "")

(* ====================================================================== *)
(*                          Resource Registry                             *)
(* ====================================================================== *)

\* UNIQUE on courts.court_name: would a row `id` named `name` collide?
CourtNameTaken(name, id) ==
    \E c \in DOMAIN courts : c # id /\ courts[c].court_name = name

\* POST /courts
createCourt(court_name, price_per_session, status) ==
    /\ IF ~TruthyStr(court_name) \/ ~TruthyNum(price_per_session)
       THEN /\ result' = Resp("createCourt", 400, "Court name and price per session are required")
            /\ UNCHANGED tables
       ELSE \* sp_create_court
            IF CourtNameTaken(court_name, 0)
            THEN /\ result' = Resp("createCourt", 500, ErDupCourtName)
                 /\ UNCHANGED tables
            ELSE /\ nextCourtId <= MaxCourts
                 /\ courts' = Put(courts, nextCourtId,
                        [court_name |-> court_name,
                         price_per_session |-> price_per_session,
                         status |-> CoalesceStr(IF TruthyStr(status) THEN status ELSE "active", "active")])
                 /\ nextCourtId' = nextCourtId + 1
                 /\ result' = Resp("createCourt", 201, "Court created successfully")
                 /\ UNCHANGED <<time_slots, nextSlotId, bookings, nextBookingId>>
    /\ UNCHANGED <<schema, today, calls>>

\* mutant: a price change is carried into the court's stored bookings
updateCourt_retro(id, court_name, price_per_session, status) ==
    /\ IF id \notin DOMAIN courts
       THEN /\ result' = Resp("updateCourt", 404, "Court not found")
            /\ UNCHANGED tables
       ELSE /\ courts' = [courts EXCEPT ![id] =
                    [court_name |-> CoalesceStr(OrNullStr(court_name), @.court_name),
                     price_per_session |-> CoalesceNum(OrNullNum(price_per_session), @.price_per_session),
                     status |-> CoalesceStr(OrNullStr(status), @.status)]]
            /\ bookings' = [b \in DOMAIN bookings |->
                    IF bookings[b].court_id = id
                    THEN [bookings[b] EXCEPT !.total_amount =
                            CoalesceNum(OrNullNum(price_per_session), @)]
                    ELSE bookings[b]]
            /\ result' = Resp("updateCourt", 200, "Court updated successfully")
            /\ UNCHANGED <<nextCourtId, time_slots, nextSlotId, nextBookingId>>
    /\ UNCHANGED <<schema, today, calls>>

\* PUT /courts/:id
updateCourt(id, court_name, price_per_session, status) ==
    /\ LET p_court_name == OrNullStr(court_name)
           p_price == OrNullNum(price_per_session)
           p_status == OrNullStr(status)
       IN  \* sp_update_court
           IF id \notin DOMAIN courts
           THEN /\ result' = Resp("updateCourt", 404, "Court not found")
                /\ UNCHANGED tables
           ELSE IF p_court_name # NullStr /\ CourtNameTaken(p_court_name, id)
           THEN /\ result' = Resp("updateCourt", 500, ErDupCourtName)
                /\ UNCHANGED tables
           ELSE /\ courts' = [courts EXCEPT ![id] =
                        [court_name |-> CoalesceStr(p_court_name, @.court_name),
                         price_per_session |-> CoalesceNum(p_price, @.price_per_session),
                         status |-> CoalesceStr(p_status, @.status)]]
                /\ result' = Resp("updateCourt", 200, "Court updated successfully")
                /\ UNCHANGED <<nextCourtId, time_slots, nextSlotId, bookings, nextBookingId>>
    /\ UNCHANGED <<schema, today, calls>>

\* FOREIGN KEY (court_id) REFERENCES courts(court_id) ON DELETE CASCADE
CascadeCourt(id) ==
    Drop(bookings, {b \in DOMAIN bookings : bookings[b].court_id = id})

\* mutant: only confirmed bookings keep a court from being deleted
CourtBookingCount_confirmed(p_court_id) ==
    Cardinality({b \in DOMAIN bookings :
        bookings[b].court_id = p_court_id /\ bookings[b].booking_status = "confirmed"})

\* sp_delete_court: SELECT COUNT(*) FROM bookings
\*   WHERE court_id = p_court_id AND booking_status != 'cancelled'
CourtBookingCount(p_court_id) ==
    Cardinality({b \in DOMAIN bookings :
        bookings[b].court_id = p_court_id /\ bookings[b].booking_status # "cancelled"})

\* DELETE /courts/:id
deleteCourt(id) ==
    /\ \* sp_delete_court
       IF id \notin DOMAIN courts
       THEN /\ result' = Resp("deleteCourt", 400, "Court not found")
            /\ UNCHANGED tables
       ELSE IF CourtBookingCount(id) > 0
       THEN /\ result' = Resp("deleteCourt", 400, "Cannot delete court with active bookings")
            /\ UNCHANGED tables
       ELSE /\ courts' = Drop(courts, {id})
            /\ bookings' = CascadeCourt(id)
            /\ result' = Resp("deleteCourt", 200, "Court deleted successfully")
            /\ UNCHANGED <<nextCourtId, time_slots, nextSlotId, nextBookingId>>
    /\ UNCHANGED <<schema, today, calls>>

(* ====================================================================== *)
(*                             Slot Registry                              *)
(* ====================================================================== *)

\* mutant of OverlapCond: the first case also matches a start on the end
OverlapCond_closed(p_start_time, p_end_time, start_time, end_time) ==
    \/ (p_start_time >= start_time /\ p_start_time <= end_time)
    \/ (p_end_time > start_time /\ p_end_time <= end_time)
    \/ (p_start_time <= start_time /\ p_end_time >= end_time)

\* the three-case overlap condition of sp_create_time_slot / sp_update_time_slot
OverlapCond(p_start_time, p_end_time, start_time, end_time) ==
    \/ (p_start_time >= start_time /\ p_start_time < end_time)
    \/ (p_end_time > start_time /\ p_end_time <= end_time)
    \/ (p_start_time <= start_time /\ p_end_time >= end_time)

\* SELECT COUNT(*) ... WHERE slot_id != p_slot_id AND status = 'active' AND (...)
\* (sp_create_time_slot has no slot_id condition: called with p_slot_id = 0)
v_overlap_count(p_slot_id, p_start_time, p_end_time) ==
    Cardinality({s \in DOMAIN time_slots :
        /\ s # p_slot_id
        /\ time_slots[s].status = "active"
        /\ OverlapCond(p_start_time, p_end_time,
                       time_slots[s].start_time, time_slots[s].end_time)})

\* UNIQUE KEY unique_time_slot (start_time, end_time)
TimeSlotKeyTaken(id, start_time, end_time) ==
    \E s \in DOMAIN time_slots :
        /\ s # id
        /\ time_slots[s].start_time = start_time
        /\ time_slots[s].end_time = end_time

\* mutant: sp_create_time_slot without its second SIGNAL, the range is
\* tested by the handler's text comparison only
createTimeSlot_text_only(start_time, end_time, slot_name, status) ==
    /\ IF start_time = NoText \/ end_time = NoText \/ ~TruthyStr(slot_name)
       THEN /\ result' = Resp("createTimeSlot", 400, "start_time, end_time and slot_name are required")
            /\ UNCHANGED tables
       ELSE IF StrGE(start_time, end_time)
       THEN /\ result' = Resp("createTimeSlot", 400, "start_time must be before end_time")
            /\ UNCHANGED tables
       ELSE LET p_start_time == TimeOf(start_time)
                p_end_time == TimeOf(end_time)
            IN
            IF v_overlap_count(0, p_start_time, p_end_time) > 0
            THEN /\ result' = Resp("createTimeSlot", 400, SigOverlap)
                 /\ UNCHANGED tables
            ELSE IF TimeSlotKeyTaken(0, p_start_time, p_end_time)
            THEN /\ result' = Resp("createTimeSlot", 500, ErDupTimeSlot)
                 /\ UNCHANGED tables
            ELSE /\ nextSlotId <= MaxSlots
                 /\ time_slots' = Put(time_slots, nextSlotId,
                        [start_time |-> p_start_time,
                         end_time |-> p_end_time,
                         slot_name |-> slot_name,
                         status |-> CoalesceStr(OrNullStr(status), "active")])
                 /\ nextSlotId' = nextSlotId + 1
                 /\ result' = Resp("createTimeSlot", 201, "Time slot created successfully")
                 /\ UNCHANGED <<courts, nextCourtId, bookings, nextBookingId>>
    /\ UNCHANGED <<schema, today, calls>>

\* POST /time-slots
createTimeSlot(start_time, end_time, slot_name, status) ==
    /\ IF start_time = NoText \/ end_time = NoText \/ ~TruthyStr(slot_name)
       THEN /\ result' = Resp("createTimeSlot", 400, "start_time, end_time and slot_name are required")
            /\ UNCHANGED tables
       ELSE IF StrGE(start_time, end_time)
       THEN /\ result' = Resp("createTimeSlot", 400, "start_time must be before end_time")
            /\ UNCHANGED tables
       ELSE \* sp_create_time_slot
            LET p_start_time == TimeOf(start_time)
                p_end_time == TimeOf(end_time)
            IN
            IF v_overlap_count(0, p_start_time, p_end_time) > 0
            THEN /\ result' = Resp("createTimeSlot", 400, SigOverlap)
                 /\ UNCHANGED tables
            ELSE IF p_start_time >= p_end_time
            THEN /\ result' = Resp("createTimeSlot", 400, SigRange)
                 /\ UNCHANGED tables
            ELSE IF TimeSlotKeyTaken(0, p_start_time, p_end_time)
            THEN /\ result' = Resp("createTimeSlot", 500, ErDupTimeSlot)
                 /\ UNCHANGED tables
            ELSE /\ nextSlotId <= MaxSlots
                 /\ time_slots' = Put(time_slots, nextSlotId,
                        [start_time |-> p_start_time,
                         end_time |-> p_end_time,
                         slot_name |-> slot_name,
                         status |-> CoalesceStr(OrNullStr(status), "active")])
                 /\ nextSlotId' = nextSlotId + 1
                 /\ result' = Resp("createTimeSlot", 201, "Time slot created successfully")
                 /\ UNCHANGED <<courts, nextCourtId, bookings, nextBookingId>>
    /\ UNCHANGED <<schema, today, calls>>

(* ---- POST /time-slots, one connection among several ------------------ *)
\* calls[k] for a time-slot request: "idle", "overlap" (before the overlap
\* count of sp_create_time_slot), "insert" (before its INSERT), "done"
IdleTimeSlotCall ==
    [pc |-> "idle",
     req |-> [start_time |-> NoText, end_time |-> NoText, slot_name |-> NullStr,
              status |-> NullStr],
     http |-> 0, msg |-> ""]

\* res.status(http).json({ message: msg }) on connection k
RespondTimeSlot(k, http, msg) ==
    /\ calls' = [calls EXCEPT ![k] = [@ EXCEPT !.pc = "done", !.http = http, !.msg = msg]]
    /\ result' = Resp("createTimeSlot", http, msg)

\* createTimeSlot up to CALL sp_create_time_slot
createTimeSlot_receive(k, r) ==
    /\ k \in DOMAIN calls
    /\ calls[k].pc = "idle"
    /\ IF r.start_time = NoText \/ r.end_time = NoText \/ ~TruthyStr(r.slot_name)
       THEN /\ calls' = [calls EXCEPT ![k] = [pc |-> "done", req |-> r, http |-> 400,
                            msg |-> "start_time, end_time and slot_name are required"]]
            /\ result' = Resp("createTimeSlot", 400, "start_time, end_time and slot_name are required")
       ELSE IF StrGE(r.start_time, r.end_time)
       THEN /\ calls' = [calls EXCEPT ![k] = [pc |-> "done", req |-> r, http |-> 400,
                            msg |-> "start_time must be before end_time"]]
            /\ result' = Resp("createTimeSlot", 400, "start_time must be before end_time")
       ELSE /\ calls' = [calls EXCEPT ![k] = [pc |-> "overlap", req |-> r, http |-> 0, msg |-> ""]]
            /\ UNCHANGED result
    /\ UNCHANGED tables
    /\ UNCHANGED <<schema, today>>

\* sp_create_time_slot: SELECT COUNT(*) INTO v_overlap_count; the two SIGNALs
sp_create_time_slot_overlap(k) ==
    /\ k \in DOMAIN calls
    /\ calls[k].pc = "overlap"
    /\ IF v_overlap_count(0, TimeOf(calls[k].req.start_time), TimeOf(calls[k].req.end_time)) > 0
       THEN RespondTimeSlot(k, 400, SigOverlap)
       ELSE IF TimeOf(calls[k].req.start_time) >= TimeOf(calls[k].req.end_time)
       THEN RespondTimeSlot(k, 400, SigRange)
       ELSE /\ calls' = [calls EXCEPT ![k].pc = "insert"]
            /\ UNCHANGED result
    /\ UNCHANGED tables
    /\ UNCHANGED <<schema, today>>

\* sp_create_time_slot: INSERT INTO time_slots; COMMIT
sp_create_time_slot_insert(k) ==
    /\ k \in DOMAIN calls
    /\ calls[k].pc = "insert"
    /\ LET r == calls[k].req
       IN  IF TimeSlotKeyTaken(0, TimeOf(r.start_time), TimeOf(r.end_time))
           THEN /\ RespondTimeSlot(k, 500, ErDupTimeSlot)
                /\ UNCHANGED tables
           ELSE /\ nextSlotId <= MaxSlots
                /\ time_slots' = Put(time_slots, nextSlotId,
                       [start_time |-> TimeOf(r.start_time),
                        end_time |-> TimeOf(r.end_time),
                        slot_name |-> r.slot_name,
                        status |-> CoalesceStr(OrNullStr(r.status), "active")])
                /\ nextSlotId' = nextSlotId + 1
                /\ RespondTimeSlot(k, 201, "Time slot created successfully")
                /\ UNCHANGED <<courts, nextCourtId, bookings, nextBookingId>>
    /\ UNCHANGED <<schema, today>>

\* mutant: completed bookings do not keep a slot from being modified
v_booking_count_confirmed(p_slot_id) ==
    Cardinality({b \in DOMAIN bookings :
        /\ bookings[b].slot_id = p_slot_id
        /\ bookings[b].booking_status = "confirmed"
        /\ bookings[b].booking_date >= today})

\* SELECT COUNT(*) FROM bookings WHERE slot_id = p_slot_id
\*   AND booking_status != 'cancelled' AND booking_date >= CURDATE()
v_booking_count(p_slot_id) ==
    Cardinality({b \in DOMAIN bookings :
        /\ bookings[b].slot_id = p_slot_id
        /\ bookings[b].booking_status # "cancelled"
        /\ bookings[b].booking_date >= today})

\* PUT /time-slots/:id
updateTimeSlot(id, start_time, end_time, slot_name, status) ==
    /\ IF start_time # NoText /\ end_time # NoText /\ StrGE(start_time, end_time)
       THEN /\ result' = Resp("updateTimeSlot", 400, "start_time must be before end_time")
            /\ UNCHANGED tables
       ELSE LET p_start_time == TimeParam(start_time)
                p_end_time == TimeParam(end_time)
                p_slot_name == OrNullStr(slot_name)
                p_status == OrNullStr(status)
            IN  \* sp_update_time_slot
                IF id \notin DOMAIN time_slots
                THEN /\ result' = Resp("updateTimeSlot", 400, "Time slot not found")
                     /\ UNCHANGED tables
                ELSE IF (p_start_time # NullNum \/ p_end_time # NullNum \/ p_status = "inactive")
                        /\ v_booking_count(id) > 0
                THEN /\ result' = Resp("updateTimeSlot", 400, "Cannot modify time slot with future active bookings")
                     /\ UNCHANGED tables
                ELSE IF p_start_time # NullNum /\ p_end_time # NullNum
                THEN IF p_start_time >= p_end_time
                     THEN /\ result' = Resp("updateTimeSlot", 400, SigRange)
                          /\ UNCHANGED tables
                     ELSE IF v_overlap_count(id, p_start_time, p_end_time) > 0
                     THEN /\ result' = Resp("updateTimeSlot", 400, SigOverlap)
                          /\ UNCHANGED tables
                     ELSE IF TimeSlotKeyTaken(id, p_start_time, p_end_time)
                     THEN /\ result' = Resp("updateTimeSlot", 500, ErDupTimeSlot)
                          /\ UNCHANGED tables
                     ELSE /\ time_slots' = [time_slots EXCEPT ![id] =
                                [start_time |-> CoalesceNum(p_start_time, @.start_time),
                                 end_time |-> CoalesceNum(p_end_time, @.end_time),
                                 slot_name |-> CoalesceStr(p_slot_name, @.slot_name),
                                 status |-> CoalesceStr(p_status, @.status)]]
                          /\ result' = Resp("updateTimeSlot", 200, "Time slot updated successfully")
                          /\ UNCHANGED <<courts, nextCourtId, nextSlotId, bookings, nextBookingId>>
                ELSE /\ time_slots' = [time_slots EXCEPT ![id] =
                           [@ EXCEPT !.slot_name = CoalesceStr(p_slot_name, @),
                                     !.status = CoalesceStr(p_status, @)]]
                     /\ result' = Resp("updateTimeSlot", 200, "Time slot updated successfully")
                     /\ UNCHANGED <<courts, nextCourtId, nextSlotId, bookings, nextBookingId>>
    /\ UNCHANGED <<schema, today, calls>>

\* mutant: sp_delete_time_slot counting like sp_delete_court does
SlotBookingCount_live(p_slot_id) ==
    Cardinality({b \in DOMAIN bookings :
        bookings[b].slot_id = p_slot_id /\ bookings[b].booking_status # "cancelled"})

\* sp_delete_time_slot: SELECT COUNT(*) FROM bookings WHERE slot_id = p_slot_id
SlotBookingCount(p_slot_id) ==
    Cardinality({b \in DOMAIN bookings : bookings[b].slot_id = p_slot_id})

\* FOREIGN KEY (slot_id) REFERENCES time_slots(slot_id) ON DELETE CASCADE
CascadeSlot(id) ==
    Drop(bookings, {b \in DOMAIN bookings : bookings[b].slot_id = id})

\* DELETE /time-slots/:id
deleteTimeSlot(id) ==
    /\ \* sp_delete_time_slot
       IF id \notin DOMAIN time_slots
       THEN /\ result' = Resp("deleteTimeSlot", 400, "Time slot not found")
            /\ UNCHANGED tables
       ELSE IF SlotBookingCount(id) > 0
       THEN /\ result' = Resp("deleteTimeSlot", 400, "Cannot delete time slot with existing bookings. Set status to inactive instead.")
            /\ UNCHANGED tables
       ELSE /\ time_slots' = Drop(time_slots, {id})
            /\ bookings' = CascadeSlot(id)
            /\ result' = Resp("deleteTimeSlot", 200, "Time slot deleted successfully")
            /\ UNCHANGED <<courts, nextCourtId, nextSlotId, nextBookingId>>
    /\ UNCHANGED <<schema, today, calls>>

(* ====================================================================== *)
(*                          Reservation Ledger                            *)
(* ====================================================================== *)

\* mutant: the availability function answers TRUE without looking
is_slot_available_blind(p_court_id, p_slot_id, p_booking_date) ==
    TRUE

\* FUNCTION is_slot_available
is_slot_available(p_court_id, p_slot_id, p_booking_date) ==
    Cardinality({b \in DOMAIN bookings :
        /\ bookings[b].court_id = p_court_id
        /\ bookings[b].slot_id = p_slot_id
        /\ bookings[b].booking_date = p_booking_date
        /\ bookings[b].booking_status # "cancelled"}) = 0

\* DECLARE v_price DEFAULT 0.00; SELECT price_per_session INTO v_price ...
\* WHERE court_id = p_court_id AND status = 'active'
\* (a SELECT ... INTO that finds no row leaves the variable as it was)
SelectPriceInto(p_court_id) ==
    IF p_court_id \in DOMAIN courts /\ courts[p_court_id].status = "active"
    THEN courts[p_court_id].price_per_session
    ELSE 0

\* mutant: the trigger looks at the court before it looks at the date
tr_validate_booking_insert_court_first(NEWROW) ==
    IF NEWROW.court_id \in DOMAIN courts /\ courts[NEWROW.court_id].status # "active"
    THEN SigCourtInactive
    ELSE IF NEWROW.booking_date < today
    THEN SigPastDate
    ELSE IF NEWROW.slot_id \in DOMAIN time_slots /\ time_slots[NEWROW.slot_id].status # "active"
    THEN SigSlotInactive
    ELSE IF NEWROW.customer_name = NullStr \/ TrimIsEmpty(NEWROW.customer_name)
    THEN SigNameBlank
    ELSE "ok"

\* TRIGGER tr_validate_booking_insert: the SIGNAL it raises, or "ok".
\* A scalar subquery without a row is NULL and NULL != 'active' is not true.
tr_validate_booking_insert(NEWROW) ==
    IF NEWROW.booking_date < today
    THEN SigPastDate
    ELSE IF NEWROW.court_id \in DOMAIN courts /\ courts[NEWROW.court_id].status # "active"
    THEN SigCourtInactive
    ELSE IF NEWROW.slot_id \in DOMAIN time_slots /\ time_slots[NEWROW.slot_id].status # "active"
    THEN SigSlotInactive
    ELSE IF NEWROW.customer_name = NullStr \/ TrimIsEmpty(NEWROW.customer_name)
    THEN SigNameBlank
    ELSE "ok"

\* TRIGGER tr_validate_booking_insert: SET NEW.total_amount
tr_total_amount(NEWROW) ==
    IF NEWROW.total_amount = 0
    THEN IF NEWROW.court_id \in DOMAIN courts
         THEN courts[NEWROW.court_id].price_per_session
         ELSE NullNum
    ELSE NEWROW.total_amount

\* mutant: table bookings without its unique key
unique_booking_dropped(NEWROW) ==
    TRUE

\* UNIQUE KEY unique_booking (court_id, slot_id, booking_date)
unique_booking(NEWROW) ==
    ~\E b \in DOMAIN bookings :
        /\ bookings[b].court_id = NEWROW.court_id
        /\ bookings[b].slot_id = NEWROW.slot_id
        /\ bookings[b].booking_date = NEWROW.booking_date

\* the constraints of table bookings, checked on the row the trigger left:
\* NOT NULL, unique key, foreign keys.  The error raised, or "ok".
BookingConstraints(NEWROW) ==
    IF NEWROW.total_amount = NullNum
    THEN ErTotalNull
    ELSE IF ~unique_booking(NEWROW)
    THEN ErDupBooking
    ELSE IF NEWROW.slot_id \notin DOMAIN time_slots
    THEN ErFkSlot
    ELSE IF NEWROW.created_by \notin AdminIds
    THEN ErFkAdmin
    ELSE "ok"

\* the row sp_create_booking hands to INSERT
NewBooking(p_court_id, p_slot_id, p_booking_date, p_customer_name, p_customer_phone, v_price, p_payment_status, p_notes, p_created_by) ==
    [court_id |-> p_court_id,
     slot_id |-> p_slot_id,
     booking_date |-> p_booking_date,
     customer_name |-> p_customer_name,
     customer_phone |-> p_customer_phone,
     total_amount |-> v_price,
     payment_status |-> p_payment_status,
     booking_status |-> "confirmed",
     notes |-> p_notes,
     created_by |-> p_created_by]

\* INSERT INTO bookings: BEFORE INSERT trigger, then the constraints.
\* The error that aborts the statement, or "ok".
InsertOutcome(NEWROW) ==
    IF tr_validate_booking_insert(NEWROW) # "ok"
    THEN tr_validate_booking_insert(NEWROW)
    ELSE BookingConstraints([NEWROW EXCEPT !.total_amount = tr_total_amount(NEWROW)])

\* PROCEDURE sp_create_booking, run without interleaving: the SIGNAL or
\* error that reaches the caller, or "ok"
sp_create_booking(NEWROW) ==
    IF ~is_slot_available(NEWROW.court_id, NEWROW.slot_id, NEWROW.booking_date)
    THEN SigSlotTaken
    ELSE IF FALSE  \* IF v_price IS NULL: v_price is 0.00 or a NOT NULL column
    THEN SigCourtMissing
    ELSE InsertOutcome(NEWROW)

\* createBooking's catch block: lower.includes("slot") || lower.includes("lapangan")
IncludesSlotOrLapangan(msg) ==
    msg \in {SigSlotTaken, SigCourtMissing, SigCourtInactive, SigSlotInactive, ErFkSlot}

CreateBookingHttp(msg) ==
    IF msg = "ok" THEN 201 ELSE IF IncludesSlotOrLapangan(msg) THEN 400 ELSE 500

\* POST /bookings
createBooking(court_id, slot_id, booking_date, customer_name, customer_phone, payment_status, notes, created_by) ==
    /\ IF \/ ~TruthyNum(court_id) \/ ~TruthyNum(slot_id) \/ booking_date = NullNum
          \/ ~TruthyStr(customer_name) \/ ~TruthyStr(customer_phone)
       THEN /\ result' = Resp("createBooking", 400, "court_id, slot_id, booking_date, customer_name, customer_phone wajib diisi")
            /\ UNCHANGED tables
       ELSE LET NEWROW == NewBooking(court_id, slot_id, booking_date, customer_name,
                          customer_phone, SelectPriceInto(court_id),
                          CoalesceStr(payment_status, "unpaid"), notes,
                          CoalesceNum(created_by, 1))
                msg == sp_create_booking(NEWROW)
            IN  IF msg # "ok"
                THEN /\ result' = Resp("createBooking", CreateBookingHttp(msg), msg)
                     /\ UNCHANGED tables
                ELSE /\ nextBookingId <= MaxBookings
                     /\ bookings' = Put(bookings, nextBookingId,
                            [NEWROW EXCEPT !.total_amount = tr_total_amount(NEWROW)])
                     /\ nextBookingId' = nextBookingId + 1
                     /\ result' = Resp("createBooking", 201, "Booking berhasil dibuat")
                     /\ UNCHANGED <<courts, nextCourtId, time_slots, nextSlotId>>
    /\ UNCHANGED <<schema, today, calls>>

(* ---- POST /bookings, one connection among several --------------------- *)
\* calls[k] is connection k's request and how far sp_create_booking has
\* come for it: "idle", "available" (before the is_slot_available test),
\* "insert" (before the INSERT), "done" (response sent); txn is the
\* transaction of the connection: "none", "open" (START TRANSACTION),
\* "committed", "rolled_back"
IdleCall ==
    [pc |-> "idle", txn |-> "none",
     req |-> [court_id |-> NullNum, slot_id |-> NullNum, booking_date |-> NullNum,
              customer_name |-> NullStr, payment_status |-> NullStr,
              created_by |-> NullNum],
     http |-> 0, msg |-> ""]

\* mutant: the exit handler resignals without ROLLBACK
ExitHandler_resignal_only ==
    "open"

\* DECLARE EXIT HANDLER FOR SQLEXCEPTION BEGIN ROLLBACK; RESIGNAL; END
ExitHandler ==
    "rolled_back"

\* the procedure has left its transaction as txn;
\* res.status(http).json({ message: msg }) on connection k
Respond(k, txn, http, msg) ==
    /\ calls' = [calls EXCEPT ![k] =
                    [@ EXCEPT !.pc = "done", !.txn = txn, !.http = http, !.msg = msg]]
    /\ result' = Resp("createBooking", http, msg)

\* createBooking up to CALL sp_create_booking: the required-field test
createBooking_receive(k, r) ==
    /\ k \in DOMAIN calls
    /\ calls[k].pc = "idle"
    /\ IF \/ ~TruthyNum(r.court_id) \/ ~TruthyNum(r.slot_id) \/ r.booking_date = NullNum
          \/ ~TruthyStr(r.customer_name)
       THEN /\ calls' = [calls EXCEPT ![k] = [pc |-> "done", txn |-> "none", req |-> r, http |-> 400,
                            msg |-> "court_id, slot_id, booking_date, customer_name, customer_phone wajib diisi"]]
            /\ result' = Resp("createBooking", 400, "court_id, slot_id, booking_date, customer_name, customer_phone wajib diisi")
       ELSE \* CALL sp_create_booking: START TRANSACTION
            /\ calls' = [calls EXCEPT ![k] = [pc |-> "available", txn |-> "open", req |-> r, http |-> 0, msg |-> ""]]
            /\ UNCHANGED result
    /\ UNCHANGED tables
    /\ UNCHANGED <<schema, today>>

\* sp_create_booking: IF NOT is_slot_available(...) THEN SIGNAL
sp_create_booking_available(k) ==
    /\ k \in DOMAIN calls
    /\ calls[k].pc = "available"
    /\ IF ~is_slot_available(calls[k].req.court_id, calls[k].req.slot_id,
                             calls[k].req.booking_date)
       THEN Respond(k, ExitHandler, CreateBookingHttp(SigSlotTaken), SigSlotTaken)
       ELSE /\ calls' = [calls EXCEPT ![k].pc = "insert"]
            /\ UNCHANGED result
    /\ UNCHANGED tables
    /\ UNCHANGED <<schema, today>>

\* sp_create_booking: SELECT price INTO v_price; INSERT INTO bookings; COMMIT.
\* The INSERT waits for a concurrent transaction that holds the same key, so
\* it sees the rows committed before it.
sp_create_booking_insert(k) ==
    /\ k \in DOMAIN calls
    /\ calls[k].pc = "insert"
    /\ LET r == calls[k].req
           NEWROW == NewBooking(r.court_id, r.slot_id, r.booking_date, r.customer_name,
                          "08", SelectPriceInto(r.court_id),
                          CoalesceStr(r.payment_status, "unpaid"), NullStr,
                          CoalesceNum(r.created_by, 1))
           msg == InsertOutcome(NEWROW)
       IN  IF msg # "ok"
           THEN /\ Respond(k, ExitHandler, CreateBookingHttp(msg), msg)
                /\ UNCHANGED tables
           ELSE /\ nextBookingId <= MaxBookings
                /\ bookings' = Put(bookings, nextBookingId,
                       [NEWROW EXCEPT !.total_amount = tr_total_amount(NEWROW)])
                /\ nextBookingId' = nextBookingId + 1
                /\ Respond(k, "committed", 201, "Booking berhasil dibuat")
                /\ UNCHANGED <<courts, nextCourtId, time_slots, nextSlotId>>
    /\ UNCHANGED <<schema, today>>

(* ---- DELETE /courts/:id, one connection among several ----------------- *)
\* calls[k] of a connection that deletes a court: "idle", "count" (before
\* the two SELECT COUNT(*) of sp_delete_court, which read one snapshot),
\* "delete" (before the DELETE), "done"
IdleCourtCall ==
    [pc |-> "idle", txn |-> "none", req |-> [court_id |-> NullNum], http |-> 0, msg |-> ""]

\* res.status(http).json({ message: msg }) of deleteCourt on connection k, after COMMIT
RespondCourt(k, http, msg) ==
    /\ calls' = [calls EXCEPT ![k] =
                    [@ EXCEPT !.pc = "done", !.txn = "committed", !.http = http, !.msg = msg]]
    /\ result' = Resp("deleteCourt", http, msg)

\* deleteCourt up to CALL sp_delete_court: START TRANSACTION
deleteCourt_receive(k, id) ==
    /\ k \in DOMAIN calls
    /\ calls[k].pc = "idle"
    /\ calls' = [calls EXCEPT ![k] = [@ EXCEPT !.pc = "count", !.txn = "open",
                                                !.req = [court_id |-> id]]]
    /\ UNCHANGED result
    /\ UNCHANGED tables
    /\ UNCHANGED <<schema, today>>

\* sp_delete_court: SELECT COUNT(*) INTO v_exists; SELECT COUNT(*) INTO
\* v_booking_count; the error rows
sp_delete_court_count(k) ==
    /\ k \in DOMAIN calls
    /\ calls[k].pc = "count"
    /\ IF calls[k].req.court_id \notin DOMAIN courts
       THEN RespondCourt(k, 400, "Court not found")
       ELSE IF CourtBookingCount(calls[k].req.court_id) > 0
       THEN RespondCourt(k, 400, "Cannot delete court with active bookings")
       ELSE /\ calls' = [calls EXCEPT ![k].pc = "delete"]
            /\ UNCHANGED result
    /\ UNCHANGED tables
    /\ UNCHANGED <<schema, today>>

\* sp_delete_court: DELETE FROM courts WHERE court_id = p_court_id; COMMIT.
\* The DELETE reads the committed rows: ON DELETE CASCADE removes every
\* booking of the court that is stored by then.
sp_delete_court_delete(k) ==
    /\ k \in DOMAIN calls
    /\ calls[k].pc = "delete"
    /\ courts' = Drop(courts, {calls[k].req.court_id})
    /\ bookings' = CascadeCourt(calls[k].req.court_id)
    /\ RespondCourt(k, 200, "Court deleted successfully")
    /\ UNCHANGED <<nextCourtId, time_slots, nextSlotId, nextBookingId>>
    /\ UNCHANGED <<schema, today>>

\* mutant of tr_booking_status_update: every update of a cancelled row is refused
tr_booking_status_update_any(OLDROW, NEWROW) ==
    IF schema = "all" /\ OLDROW.booking_status = "cancelled"
    THEN SigTerminal
    ELSE "ok"

\* TRIGGER tr_booking_status_update (AFTER UPDATE), created only by
\* badminton_booking_system(all).sql
tr_booking_status_update(OLDROW, NEWROW) ==
    IF schema = "all" /\ OLDROW.booking_status = "cancelled" /\ NEWROW.booking_status # "cancelled"
    THEN SigTerminal
    ELSE "ok"

\* mutant: the row written by the UPDATE stays when the AFTER UPDATE
\* trigger refuses it
updateBookingStatus_partial(id, payment_status, booking_status) ==
    /\ IF ~TruthyStr(payment_status) /\ ~TruthyStr(booking_status)
       THEN /\ result' = Resp("updateBookingStatus", 400, "payment_status atau booking_status harus diisi")
            /\ UNCHANGED tables
       ELSE IF id \notin DOMAIN bookings
            THEN /\ result' = Resp("updateBookingStatus", 400, "Booking tidak ditemukan")
                 /\ UNCHANGED tables
            ELSE LET OLDROW == bookings[id]
                     NEWROW == [OLDROW EXCEPT
                                !.payment_status = CoalesceStr(payment_status, @),
                                !.booking_status = CoalesceStr(booking_status, @)]
                 IN  /\ bookings' = [bookings EXCEPT ![id] = NEWROW]
                     /\ result' = IF tr_booking_status_update(OLDROW, NEWROW) # "ok"
                                  THEN Resp("updateBookingStatus", 500, tr_booking_status_update(OLDROW, NEWROW))
                                  ELSE Resp("updateBookingStatus", 200, "Status booking berhasil diupdate")
                     /\ UNCHANGED <<courts, nextCourtId, time_slots, nextSlotId, nextBookingId>>
    /\ UNCHANGED <<schema, today, calls>>

\* PATCH /bookings/:id/status
updateBookingStatus(id, payment_status, booking_status) ==
    /\ IF ~TruthyStr(payment_status) /\ ~TruthyStr(booking_status)
       THEN /\ result' = Resp("updateBookingStatus", 400, "payment_status atau booking_status harus diisi")
            /\ UNCHANGED tables
       ELSE \* sp_update_booking_status
            IF id \notin DOMAIN bookings
            THEN /\ result' = Resp("updateBookingStatus", 400, "Booking tidak ditemukan")
                 /\ UNCHANGED tables
            ELSE LET OLDROW == bookings[id]
                     NEWROW == [OLDROW EXCEPT
                                !.payment_status = CoalesceStr(payment_status, @),
                                !.booking_status = CoalesceStr(booking_status, @)]
                 IN  IF tr_booking_status_update(OLDROW, NEWROW) # "ok"
                     THEN /\ result' = Resp("updateBookingStatus", 500, tr_booking_status_update(OLDROW, NEWROW))
                          /\ UNCHANGED tables
                     ELSE /\ bookings' = [bookings EXCEPT ![id] = NEWROW]
                          /\ result' = Resp("updateBookingStatus", 200, "Status booking berhasil diupdate")
                          /\ UNCHANGED <<courts, nextCourtId, time_slots, nextSlotId, nextBookingId>>
    /\ UNCHANGED <<schema, today, calls>>

\* mutant of sp_update_booking_details_set: the update also confirms the booking
sp_update_booking_details_set_confirming(OLDROW, p_customer_name, p_customer_phone, p_notes) ==
    [OLDROW EXCEPT !.customer_name = CoalesceStr(p_customer_name, @),
                   !.customer_phone = CoalesceStr(p_customer_phone, @),
                   !.notes = CoalesceStr(p_notes, @),
                   !.booking_status = "confirmed"]

\* the SET list of the UPDATE of sp_update_booking_details
sp_update_booking_details_set(OLDROW, p_customer_name, p_customer_phone, p_notes) ==
    [OLDROW EXCEPT !.customer_name = CoalesceStr(p_customer_name, @),
                   !.customer_phone = CoalesceStr(p_customer_phone, @),
                   !.notes = CoalesceStr(p_notes, @)]

\* PATCH /bookings/:id/details
updateBookingDetails(id, customer_name, customer_phone, notes) ==
    /\ IF ~TruthyStr(customer_name) /\ ~TruthyStr(customer_phone) /\ ~TruthyStr(notes)
       THEN /\ result' = Resp("updateBookingDetails", 400, "Minimal satu field diisi")
            /\ UNCHANGED tables
       ELSE \* sp_update_booking_details
            IF id \notin DOMAIN bookings
            THEN /\ result' = Resp("updateBookingDetails", 400, "Booking not found")
                 /\ UNCHANGED tables
            ELSE LET OLDROW == bookings[id]
                     NEWROW == sp_update_booking_details_set(OLDROW, customer_name, customer_phone, notes)
                 IN  IF tr_booking_status_update(OLDROW, NEWROW) # "ok"
                     THEN /\ result' = Resp("updateBookingDetails", 500, tr_booking_status_update(OLDROW, NEWROW))
                          /\ UNCHANGED tables
                     ELSE /\ bookings' = [bookings EXCEPT ![id] = NEWROW]
                          /\ result' = Resp("updateBookingDetails", 200, "Booking updated successfully")
                          /\ UNCHANGED <<courts, nextCourtId, time_slots, nextSlotId, nextBookingId>>
    /\ UNCHANGED <<schema, today, calls>>

\* POST /bookings/:id/cancel
cancelBooking(id) ==
    /\ \* sp_cancel_booking
       IF id \notin DOMAIN bookings
       THEN /\ result' = Resp("cancelBooking", 400, "Booking not found")
            /\ UNCHANGED tables
       ELSE LET OLDROW == bookings[id]
                NEWROW == [OLDROW EXCEPT !.booking_status = "cancelled"]
            IN  IF tr_booking_status_update(OLDROW, NEWROW) # "ok"
                THEN /\ result' = Resp("cancelBooking", 500, tr_booking_status_update(OLDROW, NEWROW))
                     /\ UNCHANGED tables
                ELSE /\ bookings' = [bookings EXCEPT ![id] = NEWROW]
                     /\ result' = Resp("cancelBooking", 200, "Booking cancelled successfully")
                     /\ UNCHANGED <<courts, nextCourtId, time_slots, nextSlotId, nextBookingId>>
    /\ UNCHANGED <<schema, today, calls>>

\* VIEW v_booking_details WHERE booking_id = p_booking_id (sp_get_booking_by_id):
\* the inner joins keep a booking only with its court and its slot
sp_get_booking_by_id(p_booking_id) ==
    {b \in DOMAIN bookings :
        /\ b = p_booking_id
        /\ bookings[b].court_id \in DOMAIN courts
        /\ bookings[b].slot_id \in DOMAIN time_slots
        /\ bookings[b].created_by \in AdminIds}

\* mutant of actual_status: a confirmed booking of today is completed too
actual_status_today(b) ==
    IF bookings[b].booking_date <= today /\ bookings[b].booking_status = "confirmed"
    THEN "completed"
    ELSE bookings[b].booking_status

\* VIEW v_booking_details: CASE WHEN b.booking_date < CURDATE() AND
\* b.booking_status = 'confirmed' THEN 'completed' ELSE b.booking_status END
actual_status(b) ==
    IF bookings[b].booking_date < today /\ bookings[b].booking_status = "confirmed"
    THEN "completed"
    ELSE bookings[b].booking_status

\* the row of v_booking_details for booking b
v_booking_details(b) ==
    [booking_id |-> b,
     booking_date |-> bookings[b].booking_date,
     court_name |-> courts[bookings[b].court_id].court_name,
     customer_name |-> bookings[b].customer_name,
     total_amount |-> bookings[b].total_amount,
     payment_status |-> bookings[b].payment_status,
     booking_status |-> bookings[b].booking_status,
     actual_status |-> actual_status(b)]

\* GET /bookings/:id
getBookingById(id) ==
    /\ IF sp_get_booking_by_id(id) = {}
       THEN result' = Resp("getBookingById", 404, "Booking tidak ditemukan")
       ELSE result' = RespData("getBookingById", 200, "Booking ditemukan", v_booking_details(id))
    /\ UNCHANGED tables
    /\ UNCHANGED <<schema, today, calls>>

\* FROM bookings b JOIN courts c JOIN time_slots ts JOIN admins a WHERE 1=1
\* AND b.court_id = p_court_id AND b.booking_date >= p_start_date
\* AND b.booking_date <= p_end_date, each condition only for a non-NULL parameter
HistoryMatches(p_court_id, p_start_date, p_end_date) ==
    {b \in DOMAIN bookings :
        /\ bookings[b].court_id \in DOMAIN courts
        /\ bookings[b].slot_id \in DOMAIN time_slots
        /\ bookings[b].created_by \in AdminIds
        /\ p_court_id # NullNum => bookings[b].court_id = p_court_id
        /\ p_start_date # NullNum => bookings[b].booking_date >= p_start_date
        /\ p_end_date # NullNum => bookings[b].booking_date <= p_end_date}

\* ORDER BY b.booking_date DESC, ts.start_time ASC: row a must come before row b
SortsBefore(a, b) ==
    \/ bookings[a].booking_date > bookings[b].booking_date
    \/ /\ bookings[a].booking_date = bookings[b].booking_date
       /\ time_slots[bookings[a].slot_id].start_time < time_slots[bookings[b].slot_id].start_time

\* the orders of the rows ids that ORDER BY allows: rows that tie on both
\* keys come in either order
RECURSIVE OrderByDateStart(_)
OrderByDateStart(ids) ==
    IF ids = {} THEN {<<>>}
    ELSE UNION {{<<m>> \o q : q \in OrderByDateStart(ids \ {m})} :
                m \in {x \in ids : \A y \in ids : ~SortsBefore(y, x)}}

\* LIMIT p_limit OFFSET p_offset, each only for a non-NULL parameter
LimitOffset(q, p_limit, p_offset) ==
    IF p_limit = NullNum THEN q
    ELSE LET skip == IF p_offset = NullNum THEN 0 ELSE p_offset
             last == IF skip + p_limit < Len(q) THEN skip + p_limit ELSE Len(q)
         IN  SubSeq(q, skip + 1, last)

\* the row of the history for booking b
HistoryRow(b) ==
    [booking_id |-> b,
     court_name |-> courts[bookings[b].court_id].court_name,
     slot_name |-> time_slots[bookings[b].slot_id].slot_name,
     booking_date |-> bookings[b].booking_date,
     booking_status |-> bookings[b].booking_status]

\* PROCEDURE sp_get_booking_history: the result sets it can return
sp_get_booking_history(p_court_id, p_start_date, p_end_date, p_limit, p_offset) ==
    {[i \in DOMAIN LimitOffset(q, p_limit, p_offset) |->
            HistoryRow(LimitOffset(q, p_limit, p_offset)[i])] :
     q \in OrderByDateStart(HistoryMatches(p_court_id, p_start_date, p_end_date))}

\* const limit = req.query.limit ? parseInt(req.query.limit) : 50
DefaultLimit == 50

\* GET /bookings/history?court_id=&start_date=&end_date=&limit=&offset= ;
\* NullNum is a query parameter that is absent
getBookingHistory(court_id, start_date, end_date, limit, offset) ==
    /\ LET lim == IF limit = NullNum THEN DefaultLimit ELSE limit
           off == IF offset = NullNum THEN 0 ELSE offset
       IN  \E rows \in sp_get_booking_history(court_id, start_date, end_date, lim, off) :
               result' = RespData("getBookingHistory", 200, "Riwayat booking diambil",
                                  [rows |-> rows,
                                   meta |-> [limit |-> lim, offset |-> off, count |-> Len(rows)]])
    /\ UNCHANGED tables
    /\ UNCHANGED <<schema, today, calls>>

\* FUNCTION get_available_slots_count of badminton_booking_system(all).sql:
\* total_slots - booked_slots
get_available_slots_count(p_court_id, p_booking_date) ==
    Cardinality({s \in DOMAIN time_slots : time_slots[s].status = "active"})
      - Cardinality({b \in DOMAIN bookings :
            /\ bookings[b].court_id = p_court_id
            /\ bookings[b].booking_date = p_booking_date
            /\ bookings[b].booking_status # "cancelled"})

\* SELECT get_available_slots_count(p_court_id, p_booking_date) on a database
\* created by badminton_booking_system(all).sql; no HTTP response is involved
select_get_available_slots_count(p_court_id, p_booking_date) ==
    /\ schema = "all"
    /\ result' = RespData("get_available_slots_count", 0, "",
                          [court_id |-> p_court_id, booking_date |-> p_booking_date,
                           available_slots |-> get_available_slots_count(p_court_id, p_booking_date)])
    /\ UNCHANGED tables
    /\ UNCHANGED <<schema, today, calls>>

\* mutant of AvailableSlotIds: the status of the window is not looked at
AvailableSlotIds_all == DOMAIN time_slots

\* FROM time_slots ts WHERE ts.status = 'active'
AvailableSlotIds == {s \in DOMAIN time_slots : time_slots[s].status = "active"}

\* ORDER BY ts.start_time ASC: the orders of the selected windows in which
\* start_time never decreases; windows with equal start_time come in either order
OrderByStartTime(ids) ==
    {q \in [1..Cardinality(ids) -> ids] :
        /\ \A i \in DOMAIN q, j \in DOMAIN q : i # j => q[i] # q[j]
        /\ \A i \in DOMAIN q, j \in DOMAIN q :
                i < j => time_slots[q[i]].start_time <= time_slots[q[j]].start_time}

\* GET /courts: sp_get_all_courts selects every court (its ORDER BY
\* court_name is not followed: the rows are kept by court_id)
getAllCourts ==
    /\ result' = RespData("getAllCourts", 200, "Courts retrieved successfully", courts)
    /\ UNCHANGED tables
    /\ UNCHANGED <<schema, today, calls>>

\* GET /time-slots: sp_get_all_time_slots selects every slot ORDER BY start_time ASC
getAllTimeSlots ==
    /\ \E q \in OrderByStartTime(DOMAIN time_slots) :
          result' = RespData("getAllTimeSlots", 200, "Time slots retrieved successfully",
                             [i \in DOMAIN q |->
                                [slot_id |-> q[i],
                                 start_time |-> time_slots[q[i]].start_time,
                                 end_time |-> time_slots[q[i]].end_time,
                                 slot_name |-> time_slots[q[i]].slot_name,
                                 status |-> time_slots[q[i]].status]])
    /\ UNCHANGED tables
    /\ UNCHANGED <<schema, today, calls>>

\* PROCEDURE sp_get_available_time_slots: the result sets it can return
sp_get_available_time_slots(p_court_id, p_booking_date) ==
    {[i \in DOMAIN q |->
        [slot_id |-> q[i],
         start_time |-> time_slots[q[i]].start_time,
         end_time |-> time_slots[q[i]].end_time,
         slot_name |-> time_slots[q[i]].slot_name,
         is_available |-> is_slot_available(p_court_id, q[i], p_booking_date)]] :
     q \in OrderByStartTime(AvailableSlotIds)}

\* GET /time-slots/available?court_id=&booking_date= ; utc_date is the date
\* part of new Date().toISOString() when the request arrives; NullNum is a
\* query parameter that is absent (a present one is a non-empty text)
getAvailableTimeSlots(court_id, booking_date, utc_date) ==
    /\ IF court_id = NullNum
       THEN result' = Resp("getAvailableTimeSlots", 400, "court_id is required")
       ELSE LET date == IF booking_date = NullNum THEN utc_date ELSE booking_date
            IN  \E slots \in sp_get_available_time_slots(court_id, date) :
                    result' = RespData("getAvailableTimeSlots", 200,
                                       "Available time slots retrieved successfully",
                                       [court_id |-> court_id, booking_date |-> date,
                                        slots |-> slots])
    /\ UNCHANGED tables
    /\ UNCHANGED <<schema, today, calls>>

\* midnight: CURDATE() moves to the next day
NextDay ==
    /\ today < MaxDay
    /\ today' = today + 1
    /\ UNCHANGED <<schema, calls, result>>
    /\ UNCHANGED tables

(* ====================================================================== *)
(*                             specifications                             *)
(* ====================================================================== *)

\* request fields: NullStr / NullNum is the absent field, "" and 0 the
\* falsy values the handlers test for
CourtNameIn == {"", "A"}
PriceIn == 0..MaxPrice
CourtStatusIn == CourtStatus \cup {NullStr}
TimeText == {HHMM(padded, h) : padded \in BOOLEAN, h \in Times}
TimeIn == TimeText \cup {NoText}
SlotStatusIn == SlotStatus \cup {NullStr}
SlotNameIn == {NullStr, "S1"}
CustomerNameIn == {"", " ", "Al"}
CustomerPhoneIn == {NullStr, "08"}
NotesIn == {NullStr, "n"}
PaymentStatusIn == {NullStr, "paid", "unpaid"}
BookingStatusIn == BookingStatus \cup {NullStr}
CreatedByIn == {NullNum, 3}

(* ---- SpecLedger: the ledger's requests over an installed registry ----- *)
\* one active court and two active slots exist, as after the installation
\* script's sample rows; the registry is not touched
InitLedger ==
    /\ schema \in SchemaScripts
    /\ today = 0
    /\ courts = Put(NoRows, 1, [court_name |-> "A", price_per_session |-> 1, status |-> "active"])
    /\ nextCourtId = 2
    /\ time_slots = Put(Put(NoRows, 1, [start_time |-> 0, end_time |-> 1, slot_name |-> "S1", status |-> "active"]),
                                 2, [start_time |-> 1, end_time |-> 2, slot_name |-> "S2", status |-> "active"])
    /\ nextSlotId = 3
    /\ bookings = NoRows
    /\ nextBookingId = 1
    /\ calls = NoRows
    /\ result = Resp("none", 0, "")

\* the create requests of SpecLedger: court 1, either slot
LedgerCreateIn ==
    [court_id : {1}, slot_id : SlotIdRange, booking_date : Days,
     customer_name : {" ", "Al"}, payment_status : {NullStr, "paid"},
     created_by : {NullNum}]

NextLedger ==
    \/ \E r \in LedgerCreateIn :
            createBooking(r.court_id, r.slot_id, r.booking_date, r.customer_name,
                          "08", r.payment_status, NullStr, r.created_by)
    \/ \E id \in BookingIdRange, pay \in {NullStr, "paid"}, bs \in BookingStatusIn :
            updateBookingStatus(id, pay, bs)
    \/ \E id \in BookingIdRange, no \in NotesIn :
            updateBookingDetails(id, NullStr, NullStr, no)
    \/ \E id \in BookingIdRange : cancelBooking(id)
    \/ NextDay

SpecLedger == InitLedger /\ [][NextLedger]_vars

(* ---- SpecAll: every request of the API, from the empty database ------- *)
\* at most AllRows rows are ever inserted into each table
AllRows == 1
\* the slot requests of SpecAll use one time range
AllTimeIn == {NoText, HHMM(TRUE, 0), HHMM(TRUE, 1)}

\* the create requests of SpecAll
AllCreateIn ==
    [court_id : 1..AllRows, slot_id : 1..AllRows, booking_date : Days,
     customer_name : CustomerNameIn, payment_status : {NullStr, "paid"},
     created_by : CreatedByIn]

NextAll ==
    \/ \E n \in CourtNameIn, p \in PriceIn, st \in CourtStatusIn :
            createCourt(n, p, st) /\ nextCourtId' <= AllRows + 1
    \/ \E id \in 1..AllRows, p \in PriceIn, st \in CourtStatusIn :
            updateCourt(id, NullStr, p, st)
    \/ \E id \in 1..AllRows : deleteCourt(id)
    \/ \E a \in AllTimeIn, b \in AllTimeIn, st \in SlotStatusIn :
            createTimeSlot(a, b, "S1", st) /\ nextSlotId' <= AllRows + 1
    \/ \E id \in 1..AllRows, a \in AllTimeIn, b \in AllTimeIn, n \in SlotNameIn, st \in SlotStatusIn :
            updateTimeSlot(id, a, b, n, st)
    \/ \E id \in 1..AllRows : deleteTimeSlot(id)
    \/ \E r \in AllCreateIn :
            /\ createBooking(r.court_id, r.slot_id, r.booking_date, r.customer_name,
                             "08", r.payment_status, NullStr, r.created_by)
            /\ nextBookingId' <= AllRows + 1
    \/ \E id \in 1..AllRows, pay \in PaymentStatusIn, bs \in BookingStatusIn :
            updateBookingStatus(id, pay, bs)
    \/ \E id \in 1..AllRows, no \in NotesIn :
            updateBookingDetails(id, NullStr, NullStr, no)
    \/ \E id \in 1..AllRows : cancelBooking(id)
    \/ \E id \in 1..AllRows : getBookingById(id)
    \/ NextDay

SpecAll == Init /\ [][NextAll]_vars

(* ---- SpecSlots: the slot registry's requests ------------------------- *)
\* the update requests of SpecSlots
\* the requests POST /time-slots receives in SpecSlots
SlotCreateIn ==
    [start_time : TimeIn, end_time : TimeIn, slot_name : {"", "S"}, status : SlotStatusIn]

SlotUpdateIn ==
    [start_time : TimeIn, end_time : TimeIn, slot_name : SlotNameIn,
     status : SlotStatusIn]

NextSlots ==
    \/ \E r \in SlotCreateIn :
            createTimeSlot(r.start_time, r.end_time, r.slot_name, r.status)
    \/ \E id \in SlotIdRange, r \in SlotUpdateIn :
            updateTimeSlot(id, r.start_time, r.end_time, r.slot_name, r.status)
    \/ \E id \in SlotIdRange : deleteTimeSlot(id)

SpecSlots == Init /\ [][NextSlots]_vars

(* ---- SpecAvail: the availability listing beside the reservations ------ *)
\* one court; window 2 starts before window 1, or with it
InitAvail ==
    /\ schema \in SchemaScripts
    /\ today = 0
    /\ courts = Put(NoRows, 1, [court_name |-> "A", price_per_session |-> 1, status |-> "active"])
    /\ nextCourtId = 2
    /\ \E a \in {0, 1} :
          time_slots = Put(Put(NoRows, 1, [start_time |-> a, end_time |-> 2, slot_name |-> "S1", status |-> "active"]),
                                       2, [start_time |-> 0, end_time |-> 1, slot_name |-> "S2", status |-> "active"])
    /\ nextSlotId = 3
    /\ bookings = NoRows
    /\ nextBookingId = 1
    /\ calls = NoRows
    /\ result = Resp("none", 0, "")

\* the create requests of SpecAvail
AvailCreateIn ==
    [court_id : {1}, slot_id : SlotIdRange, booking_date : Days,
     customer_name : {"Al"}, payment_status : {NullStr},
     created_by : {NullNum}]

NextAvail ==
    \/ \E r \in AvailCreateIn :
            createBooking(r.court_id, r.slot_id, r.booking_date, r.customer_name,
                          "08", r.payment_status, NullStr, r.created_by)
    \/ \E id \in BookingIdRange, bs \in BookingStatusIn :
            updateBookingStatus(id, NullStr, bs)
    \/ \E id \in SlotIdRange, st \in {"active", "inactive"} :
            updateTimeSlot(id, NoText, NoText, NullStr, st)
    \/ \E c \in {NullNum} \cup CourtIdRange, d \in {NullNum} \cup Days, u \in Days :
            getAvailableTimeSlots(c, d, u)

SpecAvail == InitAvail /\ [][NextAvail]_vars

(* ---- SpecDetails: the detail updates of stored reservations ----------- *)
\* the detail requests: each field absent, empty, blank or given
DetailsIn ==
    [customer_name : {NullStr, "", " ", "Bo"}, customer_phone : {NullStr, "09"}, notes : NotesIn]

NextDetails ==
    \/ \E s \in SlotIdRange :
            createBooking(1, s, 0, "Al", "08", NullStr, NullStr, NullNum)
    \/ \E id \in BookingIdRange, bs \in BookingStatus :
            updateBookingStatus(id, NullStr, bs)
    \/ \E id \in BookingIdRange, r \in DetailsIn :
            updateBookingDetails(id, r.customer_name, r.customer_phone, r.notes)
    \/ \E id \in BookingIdRange : cancelBooking(id)

SpecDetails == InitLedger /\ [][NextDetails]_vars

(* ---- SpecCourts: the court registry's requests ------------------------ *)
\* the court requests: the name absent or one of two names
CourtIn ==
    [court_name : {NullStr, "A", "B"}, price_per_session : {NullNum, 1},
     status : {NullStr, "active", "inactive"}]

NextCourts ==
    \/ \E r \in CourtIn : createCourt(r.court_name, r.price_per_session, r.status)
    \/ \E id \in CourtIdRange, r \in CourtIn :
            updateCourt(id, r.court_name, r.price_per_session, r.status)
    \/ \E id \in CourtIdRange : deleteCourt(id)

SpecCourts == Init /\ [][NextCourts]_vars

(* ---- SpecLongLedger: the history of a ledger of many reservations ----- *)
\* one court and one slot; n reservations on the days 0 .. n-1, created in
\* that order, for every n up to one more than the default page
InitLongLedger ==
    /\ schema \in SchemaScripts
    /\ today = 0
    /\ courts = Put(NoRows, 1, [court_name |-> "A", price_per_session |-> 1, status |-> "active"])
    /\ nextCourtId = 2
    /\ time_slots = Put(NoRows, 1, [start_time |-> 0, end_time |-> 1, slot_name |-> "S1", status |-> "active"])
    /\ nextSlotId = 2
    /\ \E n \in 0..(DefaultLimit + 1) :
          /\ bookings = [b \in 1..n |-> NewBooking(1, 1, b - 1, "Al", "08", 1, "unpaid", NullStr, 1)]
          /\ nextBookingId = n + 1
    /\ calls = NoRows
    /\ result = Resp("none", 0, "")

\* the history requests of SpecLongLedger: no limit, or a limit of two rows
LongHistoryIn ==
    [court_id : {NullNum, 1, 2}, start_date : {NullNum, 1}, end_date : {NullNum},
     limit : {NullNum, 2}, offset : {NullNum}]

NextLongLedger ==
    \/ \E r \in LongHistoryIn :
            getBookingHistory(r.court_id, r.start_date, r.end_date, r.limit, r.offset)
    \/ cancelBooking(1)

SpecLongLedger == InitLongLedger /\ [][NextLongLedger]_vars

(* ---- SpecReads: the queries beside the ledger's requests -------------- *)
\* the history requests of SpecReads
ReadHistoryIn ==
    [court_id : {NullNum, 1}, start_date : {NullNum, 1}, end_date : {NullNum, 0},
     limit : {NullNum, 1}, offset : {NullNum}]

NextReads ==
    \/ \E s \in SlotIdRange, d \in Days :
            createBooking(1, s, d, "Al", "08", NullStr, NullStr, NullNum)
    \/ \E id \in BookingIdRange, bs \in BookingStatus :
            updateBookingStatus(id, NullStr, bs)
    \/ \E id \in BookingIdRange : cancelBooking(id)
    \/ NextDay
    \/ \E id \in BookingIdRange : getBookingById(id)
    \/ \E r \in ReadHistoryIn :
            getBookingHistory(r.court_id, r.start_date, r.end_date, r.limit, r.offset)
    \/ \E d \in {NullNum} \cup Days, u \in Days : getAvailableTimeSlots(1, d, u)
    \/ getAllCourts
    \/ getAllTimeSlots

SpecReads == InitLedger /\ [][NextReads]_vars

(* ---- SpecRace: POST /bookings on NumCallers connections at once ------- *)
\* the installed registry of SpecLedger; every connection sends one request
InitRace ==
    /\ schema \in SchemaScripts
    /\ today = 0
    /\ courts = Put(NoRows, 1, [court_name |-> "A", price_per_session |-> 1, status |-> "active"])
    /\ nextCourtId = 2
    /\ time_slots = Put(Put(NoRows, 1, [start_time |-> 0, end_time |-> 1, slot_name |-> "S1", status |-> "active"]),
                                 2, [start_time |-> 1, end_time |-> 2, slot_name |-> "S2", status |-> "active"])
    /\ nextSlotId = 3
    /\ bookings = NoRows
    /\ nextBookingId = 1
    /\ calls = [k \in 1..NumCallers |-> IdleCall]
    /\ result = Resp("none", 0, "")

RaceCreateIn ==
    [court_id : {1}, slot_id : SlotIdRange, booking_date : Days,
     customer_name : {"", "Al"}, payment_status : {NullStr},
     created_by : {NullNum}]

NextRace ==
    \/ \E k \in 1..NumCallers, r \in RaceCreateIn : createBooking_receive(k, r)
    \/ \E k \in 1..NumCallers : sp_create_booking_available(k)
    \/ \E k \in 1..NumCallers : sp_create_booking_insert(k)

SpecRace == InitRace /\ [][NextRace]_vars

(* ---- SpecRaceFair: SpecRace, where a called procedure keeps running -- *)
\* the server runs every statement of a procedure it was called with
SpecRaceFair ==
    /\ InitRace
    /\ [][NextRace]_vars
    /\ \A k \in 1..NumCallers :
          /\ WF_vars(sp_create_booking_available(k))
          /\ WF_vars(sp_create_booking_insert(k))

(* ---- SpecCourtRace: DELETE /courts/1 beside POST /bookings ------------ *)
\* the installed registry of SpecLedger; connection 1 sends a create,
\* connection 2 a delete of the court
InitCourtRace ==
    /\ schema \in SchemaScripts
    /\ today = 0
    /\ courts = Put(NoRows, 1, [court_name |-> "A", price_per_session |-> 1, status |-> "active"])
    /\ nextCourtId = 2
    /\ time_slots = Put(Put(NoRows, 1, [start_time |-> 0, end_time |-> 1, slot_name |-> "S1", status |-> "active"]),
                                 2, [start_time |-> 1, end_time |-> 2, slot_name |-> "S2", status |-> "active"])
    /\ nextSlotId = 3
    /\ bookings = NoRows
    /\ nextBookingId = 1
    /\ calls = [k \in {1, 2} |-> IF k = 1 THEN IdleCall ELSE IdleCourtCall]
    /\ result = Resp("none", 0, "")

NextCourtRace ==
    \/ \E r \in RaceCreateIn : createBooking_receive(1, r)
    \/ sp_create_booking_available(1)
    \/ sp_create_booking_insert(1)
    \/ \E id \in CourtIdRange : deleteCourt_receive(2, id)
    \/ sp_delete_court_count(2)
    \/ sp_delete_court_delete(2)

SpecCourtRace == InitCourtRace /\ [][NextCourtRace]_vars

(* ---- SpecLedgerSlots: the ledger beside the slot registry, one day ---- *)
\* one court and one window are installed; the date does not change
InitLedgerSlots ==
    /\ schema \in SchemaScripts
    /\ today = 0
    /\ courts = Put(NoRows, 1, [court_name |-> "A", price_per_session |-> 1, status |-> "active"])
    /\ nextCourtId = 2
    /\ time_slots = Put(NoRows, 1, [start_time |-> 0, end_time |-> 1, slot_name |-> "S1", status |-> "active"])
    /\ nextSlotId = 2
    /\ bookings = NoRows
    /\ nextBookingId = 1
    /\ calls = NoRows
    /\ result = Resp("none", 0, "")

\* the window requests of SpecLedgerSlots: padded times, or none
LedgerSlotIn ==
    [start_time : {NoText} \cup {HHMM(TRUE, h) : h \in Times},
     end_time : {NoText} \cup {HHMM(TRUE, h) : h \in Times},
     status : SlotStatusIn]

NextLedgerSlots ==
    \/ \E r \in AvailCreateIn :
            createBooking(r.court_id, r.slot_id, r.booking_date, r.customer_name,
                          "08", r.payment_status, NullStr, r.created_by)
    \/ \E id \in BookingIdRange, bs \in BookingStatusIn :
            updateBookingStatus(id, NullStr, bs)
    \/ \E id \in BookingIdRange : cancelBooking(id)
    \/ \E r \in LedgerSlotIn :
            createTimeSlot(r.start_time, r.end_time, "S", r.status)
    \/ \E id \in SlotIdRange, r \in LedgerSlotIn :
            updateTimeSlot(id, r.start_time, r.end_time, NullStr, r.status)
    \/ \E id \in SlotIdRange : deleteTimeSlot(id)

SpecLedgerSlots == InitLedgerSlots /\ [][NextLedgerSlots]_vars

(* ---- SpecCount: the count of available windows, over several days ----- *)
NextCount ==
    \/ \E r \in AvailCreateIn :
            createBooking(r.court_id, r.slot_id, r.booking_date, r.customer_name,
                          "08", r.payment_status, NullStr, r.created_by)
    \/ \E id \in BookingIdRange, bs \in BookingStatusIn :
            updateBookingStatus(id, NullStr, bs)
    \/ \E id \in SlotIdRange, st \in {"active", "inactive"} :
            updateTimeSlot(id, NoText, NoText, NullStr, st)
    \/ \E id \in SlotIdRange : deleteTimeSlot(id)
    \/ \E c \in CourtIdRange, d \in Days : select_get_available_slots_count(c, d)
    \/ \E c \in CourtIdRange, d \in Days : getAvailableTimeSlots(c, d, d)
    \/ NextDay

SpecCount == InitAvail /\ [][NextCount]_vars

(* ---- SpecSlotRace: POST /time-slots on NumCallers connections at once - *)
\* the empty registry; every connection sends one request
InitSlotRace ==
    /\ schema \in SchemaScripts
    /\ today = 0
    /\ courts = NoRows
    /\ nextCourtId = 1
    /\ time_slots = NoRows
    /\ nextSlotId = 1
    /\ bookings = NoRows
    /\ nextBookingId = 1
    /\ calls = [k \in 1..NumCallers |-> IdleTimeSlotCall]
    /\ result = Resp("none", 0, "")

SlotRaceCreateIn ==
    [start_time : {HHMM(TRUE, h) : h \in Times}, end_time : {HHMM(TRUE, h) : h \in Times},
     slot_name : {"S"}, status : SlotStatusIn]

NextSlotRace ==
    \/ \E k \in 1..NumCallers, r \in SlotRaceCreateIn : createTimeSlot_receive(k, r)
    \/ \E k \in 1..NumCallers : sp_create_time_slot_overlap(k)
    \/ \E k \in 1..NumCallers : sp_create_time_slot_insert(k)

SpecSlotRace == InitSlotRace /\ [][NextSlotRace]_vars

(* ====================================================================== *)
(*                                claims                                  *)
(* ====================================================================== *)

\* the (court, slot, date) triple of a stored reservation
Triple(b) == <<bookings[b].court_id, bookings[b].slot_id, bookings[b].booking_date>>

\* the stored reservations of a triple that are not cancelled
Live(c, s, d) ==
    {b \in DOMAIN bookings :
        Triple(b) = <<c, s, d>> /\ bookings[b].booking_status # "cancelled"}

\* the failure kind a caller reads from a message: the SIGNALs of the
\* procedures and triggers name a business rule, every engine error
\* (duplicate key, foreign key, NOT NULL) is a generic storage failure
Kind(msg) ==
    CASE msg = SigSlotTaken -> "SlotTaken"
      [] msg \in {SigCourtMissing, SigCourtInactive} -> "ResourceUnavailable"
      [] msg = SigSlotInactive -> "WindowUnavailable"
      [] msg = SigNameBlank -> "InvalidCustomer"
      [] msg = SigPastDate -> "PastDateRejected"
      [] msg = SigTerminal -> "TerminalState"
      [] OTHER -> "StorageUnavailable"

\* the stored reservations of a triple, of any status
Used(c, s, d) == {b \in DOMAIN bookings : Triple(b) = <<c, s, d>>}

CourtActive(c) == c \in DOMAIN courts /\ courts[c].status = "active"
SlotActive(s) == s \in DOMAIN time_slots /\ time_slots[s].status = "active"

\* a create request whose inputs are all valid
ValidCreate(r) ==
    /\ r.booking_date >= today
    /\ CourtActive(r.court_id)
    /\ SlotActive(r.slot_id)
    /\ ~TrimIsEmpty(r.customer_name)
    /\ CoalesceNum(r.created_by, 1) \in AdminIds

\* the step is POST /bookings with request r
Create(r) ==
    createBooking(r.court_id, r.slot_id, r.booking_date, r.customer_name,
                  "08", r.payment_status, NullStr, r.created_by)

\* C1: in every state reachable by create, updateStatus, updateDetails and
\* cancel calls, each (court, slot, date) triple has at most one stored
\* reservation whose booking status is not cancelled.
C1_UniqueLive ==
    \A b1 \in DOMAIN bookings, b2 \in DOMAIN bookings :
        (/\ Triple(b1) = Triple(b2)
         /\ bookings[b1].booking_status # "cancelled"
         /\ bookings[b2].booking_status # "cancelled") => b1 = b2

\* C1 witness: a create was turned away by the unique key while another
\* triple's reservation and the colliding one are both stored
C1_Witness ==
    /\ result.op = "createBooking"
    /\ result.msg = ErDupBooking
    /\ Cardinality(DOMAIN bookings) = 2
    /\ \E b \in DOMAIN bookings : bookings[b].booking_status # "cancelled"

\* C2: when two or more create calls with otherwise valid inputs target the
\* same triple and interleave, exactly one returns success, every other
\* one returns SlotTaken, and exactly one reservation is stored for the
\* triple.
C2_OneWinnerOthersSlotTaken ==
    \A s \in SlotIdRange, d \in Days :
        LET racers == {k \in DOMAIN calls :
                          /\ calls[k].req.slot_id = s
                          /\ calls[k].req.booking_date = d
                          /\ TruthyStr(calls[k].req.customer_name)}
        IN  (Cardinality(racers) >= 2 /\ \A k \in racers : calls[k].pc = "done") =>
                /\ Cardinality({k \in racers : calls[k].http = 201}) = 1
                /\ \A k \in racers : calls[k].http # 201 => calls[k].msg = SigSlotTaken
                /\ Cardinality(Used(1, s, d)) = 1

\* C3: once a reservation is cancelled, every later updateStatus call that
\* supplies bookingStatus = confirmed or completed fails, and the stored
\* booking status of that reservation stays cancelled.
C3_CancelledIsTerminal ==
    [][\A id \in DOMAIN bookings :
          bookings[id].booking_status = "cancelled" =>
            /\ id \in DOMAIN bookings' => bookings'[id].booking_status = "cancelled"
            /\ \A pay \in PaymentStatusIn, bs \in {"confirmed", "completed"} :
                  updateBookingStatus(id, pay, bs) =>
                      result'.http # 200 /\ bookings' = bookings]_vars

\* C4: in every state reachable by slot create, update and delete calls,
\* no two distinct active windows A and B have A.start < B.end and
\* A.end > B.start.
C4_NoActiveOverlap ==
    \A A \in DOMAIN time_slots, B \in DOMAIN time_slots :
        (/\ A # B
         /\ time_slots[A].status = "active"
         /\ time_slots[B].status = "active")
        => ~(/\ time_slots[A].start_time < time_slots[B].end_time
             /\ time_slots[A].end_time > time_slots[B].start_time)

\* C5: create on a triple that a non-cancelled reservation holds fails with
\* SlotTaken and leaves the ledger unchanged; create with valid inputs on a
\* triple no reservation has used succeeds and stores exactly one new
\* reservation, with booking status confirmed.
C5_HeldFailsFreshSucceeds ==
    [][result'.op = "createBooking" =>
        \A r \in LedgerCreateIn :
            /\ (Live(r.court_id, r.slot_id, r.booking_date) # {} /\ Create(r)) =>
                 /\ result'.msg = SigSlotTaken
                 /\ result'.http = 400
                 /\ bookings' = bookings
            /\ (/\ ValidCreate(r)
                /\ Used(r.court_id, r.slot_id, r.booking_date) = {}
                /\ Create(r)) =>
                 /\ result'.http = 201
                 /\ DOMAIN bookings' = DOMAIN bookings \cup {nextBookingId}
                 /\ nextBookingId \notin DOMAIN bookings
                 /\ \A b \in DOMAIN bookings : bookings'[b] = bookings[b]
                 /\ bookings'[nextBookingId].booking_status = "confirmed"
                 /\ <<bookings'[nextBookingId].court_id, bookings'[nextBookingId].slot_id,
                      bookings'[nextBookingId].booking_date>>
                        = <<r.court_id, r.slot_id, r.booking_date>>]_vars

\* C5 witness: a create was answered SlotTaken while the confirmed
\* reservation an earlier create stored holds a triple
C5_Witness ==
    /\ result.op = "createBooking"
    /\ result.msg = SigSlotTaken
    /\ \E b \in DOMAIN bookings : bookings[b].booking_status = "confirmed"

C7_CancelledRejectsEveryUpdate ==
    [][\A id \in DOMAIN bookings :
          bookings[id].booking_status = "cancelled" =>
            \A pay \in PaymentStatusIn, bs \in BookingStatusIn :
                ((TruthyStr(pay) \/ TruthyStr(bs)) /\ updateBookingStatus(id, pay, bs)) =>
                    result'.msg = SigTerminal /\ bookings' = bookings]_vars

\* C8: create stores a reservation only if the date is not before today,
\* the court exists and is active, the slot exists and is active and the
\* name is non-blank; when the court is missing or not active it fails with
\* ResourceUnavailable, when the slot is missing or inactive with
\* WindowUnavailable, when the name is blank with InvalidCustomer (a request
\* that breaks several rules may report any of the broken ones), and the
\* ledger is unchanged.
C8_StoresOnlyValid ==
    [][result'.op = "createBooking" =>
        \A r \in AllCreateIn :
          (TruthyStr(r.customer_name) /\ Create(r)) =>
            LET broken == (IF r.booking_date < today THEN {"PastDateRejected"} ELSE {})
                          \cup (IF ~CourtActive(r.court_id) THEN {"ResourceUnavailable"} ELSE {})
                          \cup (IF ~SlotActive(r.slot_id) THEN {"WindowUnavailable"} ELSE {})
                          \cup (IF TrimIsEmpty(r.customer_name) THEN {"InvalidCustomer"} ELSE {})
                held == IF Live(r.court_id, r.slot_id, r.booking_date) # {}
                        THEN {"SlotTaken"} ELSE {}
            IN  /\ bookings' # bookings => broken = {}
                /\ broken # {} =>
                     /\ result'.http # 201
                     /\ Kind(result'.msg) \in broken \cup held
                     /\ bookings' = bookings]_vars

C10_TotalFrozen ==
    [][/\ \A b \in DOMAIN bookings \cap DOMAIN bookings' :
             bookings'[b].total_amount = bookings[b].total_amount
       /\ \A b \in DOMAIN bookings' \ DOMAIN bookings :
             /\ bookings'[b].court_id \in DOMAIN courts
             /\ bookings'[b].total_amount = courts[bookings'[b].court_id].price_per_session]_vars

\* C10 witness: a court update has changed the price after a reservation of
\* that court was stored
C10_Witness ==
    /\ result.op = "updateCourt"
    /\ result.http = 200
    /\ \E b \in DOMAIN bookings :
          /\ bookings[b].court_id \in DOMAIN courts
          /\ bookings[b].total_amount # courts[bookings[b].court_id].price_per_session

\* C11: delete(court) fails with ConflictInUse and removes nothing while a
\* confirmed or completed reservation references the court; when every
\* reservation that references the court is cancelled, or none exists,
\* delete(court) succeeds and removes the court.
C11_CourtDeleteBlockedWhileLive ==
    [][result'.op = "deleteCourt" =>
        \A id \in DOMAIN courts :
            deleteCourt(id) =>
                IF \E b \in DOMAIN bookings :
                      /\ bookings[b].court_id = id
                      /\ bookings[b].booking_status \in {"confirmed", "completed"}
                THEN /\ result'.http = 400
                     /\ result'.msg = "Cannot delete court with active bookings"
                     /\ courts' = courts
                     /\ bookings' = bookings
                ELSE /\ result'.http = 200
                     /\ DOMAIN courts' = DOMAIN courts \ {id}
                     /\ \A c \in DOMAIN courts' : courts'[c] = courts[c]]_vars

\* C11 witness: delete(court) was refused while the court's only
\* reservation is completed
C11_Witness ==
    /\ result.op = "deleteCourt"
    /\ result.msg = "Cannot delete court with active bookings"
    /\ \E b \in DOMAIN bookings :
          /\ bookings[b].court_id \in DOMAIN courts
          /\ bookings[b].booking_status = "completed"

\* would DELETE /time-slots/:id be answered 200 in this state?
DeleteTimeSlotSucceeds(id) ==
    id \in DOMAIN time_slots /\ SlotBookingCount(id) = 0

\* C12: once a reservation of any booking status references a window, every
\* later delete(window) fails and the window remains stored, whatever
\* happens in between: a step taken while a stored reservation references
\* the window refuses its deletion, keeps the window, and leaves a state in
\* which its deletion is still refused.
C12_UsedWindowNeverDeletable ==
    [][\A w \in SlotIdRange :
          (\E b \in DOMAIN bookings : bookings[b].slot_id = w) =>
              /\ deleteTimeSlot(w) => result'.http = 400
              /\ w \in DOMAIN time_slots'
              /\ ~DeleteTimeSlotSucceeds(w)']_vars

\* some non-cancelled reservation of the window has a date >= today
HeldFromToday(w) ==
    \E b \in DOMAIN bookings :
        /\ bookings[b].slot_id = w
        /\ bookings[b].booking_status # "cancelled"
        /\ bookings[b].booking_date >= today

\* the update requests of SpecAll on a stored window
AllSlotUpdateIn ==
    [start_time : AllTimeIn, end_time : AllTimeIn, slot_name : SlotNameIn,
     status : SlotStatusIn]

\* C13 (as stated): while a non-cancelled reservation with date >= today
\* references the window, an update that supplies start, end or
\* status = inactive fails with ConflictInUse and changes nothing, and an
\* update that supplies only a name or status = active is not blocked.
C13_BlockedByConflictInUse ==
    [][result'.op = "updateTimeSlot" =>
        \A w \in {x \in DOMAIN time_slots : HeldFromToday(x)}, r \in AllSlotUpdateIn :
            updateTimeSlot(w, r.start_time, r.end_time, r.slot_name, r.status) =>
                IF r.start_time # NoText \/ r.end_time # NoText \/ r.status = "inactive"
                THEN /\ result'.msg = "Cannot modify time slot with future active bookings"
                     /\ time_slots' = time_slots
                ELSE result'.http = 200]_vars

\* C13 (amended): such an update fails and changes nothing; the failure is
\* ConflictInUse unless both start and end are supplied and the start, as
\* the handler compares the two texts, is not before the end, which is
\* refused as InvalidRange before the reservations are looked at.
\* An update that supplies only a name or status = active succeeds.
C13_BlockedUnlessRangeRefusedFirst ==
    [][result'.op = "updateTimeSlot" =>
        \A w \in {x \in DOMAIN time_slots : HeldFromToday(x)}, r \in AllSlotUpdateIn :
            updateTimeSlot(w, r.start_time, r.end_time, r.slot_name, r.status) =>
                IF r.start_time # NoText \/ r.end_time # NoText \/ r.status = "inactive"
                THEN /\ result'.http = 400
                     /\ result'.msg =
                          IF /\ r.start_time # NoText /\ r.end_time # NoText
                             /\ StrGE(r.start_time, r.end_time)
                          THEN "start_time must be before end_time"
                          ELSE "Cannot modify time slot with future active bookings"
                     /\ time_slots' = time_slots
                ELSE /\ result'.http = 200
                     /\ time_slots'[w].status = CoalesceStr(r.status, time_slots[w].status)]_vars

\* C13 witness: an update was refused because of a reservation from today on
C13_Witness ==
    /\ result.op = "updateTimeSlot"
    /\ result.msg = "Cannot modify time slot with future active bookings"
    /\ \E w \in DOMAIN time_slots : HeldFromToday(w)

\* C14: a successful update(window) sets exactly the supplied fields among
\* start, end, name and status to the supplied values and leaves every
\* unsupplied field, and every other window, as it was; also when only
\* start or only end is supplied.
C14_UpdateSetsSuppliedFields ==
    [][(result'.op = "updateTimeSlot" /\ result'.http = 200) =>
        \A w \in DOMAIN time_slots, r \in SlotUpdateIn :
            updateTimeSlot(w, r.start_time, r.end_time, r.slot_name, r.status) =>
                /\ DOMAIN time_slots' = DOMAIN time_slots
                /\ \A x \in DOMAIN time_slots \ {w} : time_slots'[x] = time_slots[x]
                /\ time_slots'[w].start_time =
                     IF r.start_time # NoText THEN TimeOf(r.start_time) ELSE time_slots[w].start_time
                /\ time_slots'[w].end_time =
                     IF r.end_time # NoText THEN TimeOf(r.end_time) ELSE time_slots[w].end_time
                /\ time_slots'[w].slot_name =
                     IF r.slot_name # NullStr THEN r.slot_name ELSE time_slots[w].slot_name
                /\ time_slots'[w].status =
                     IF r.status # NullStr THEN r.status ELSE time_slots[w].status]_vars

\* C15: when two slot create calls with overlapping, non-identical valid
\* ranges run concurrently on a registry in which neither range overlaps an
\* active window, at most one of them succeeds, and no two active windows
\* overlap afterwards.
C15_OverlappingRacersNotBothStored ==
    \A k1 \in DOMAIN calls, k2 \in DOMAIN calls :
        LET r1 == calls[k1].req
            r2 == calls[k2].req
            s1 == TimeParam(r1.start_time)
            e1 == TimeParam(r1.end_time)
            s2 == TimeParam(r2.start_time)
            e2 == TimeParam(r2.end_time)
        IN  (/\ k1 # k2
             /\ calls[k1].pc = "done" /\ calls[k2].pc = "done"
             /\ r1.start_time # NoText /\ r1.end_time # NoText
             /\ r2.start_time # NoText /\ r2.end_time # NoText
             /\ s1 < e1 /\ s2 < e2
             /\ r1.status # "inactive" /\ r2.status # "inactive"
             /\ <<s1, e1>> # <<s2, e2>>
             /\ s1 < e2 /\ e1 > s2)
            => /\ ~(calls[k1].http = 201 /\ calls[k2].http = 201)
               /\ \A A \in DOMAIN time_slots, B \in DOMAIN time_slots :
                     (A # B /\ time_slots[A].status = "active" /\ time_slots[B].status = "active")
                     => \/ time_slots[A].start_time >= time_slots[B].end_time
                        \/ time_slots[A].end_time <= time_slots[B].start_time

\* C16: every operation of the ledger and the two registries that returns
\* a failure, the business-rule failures among them, leaves the stored
\* courts, windows and reservations exactly as they were before the call.
C16_FailureWritesNothing ==
    [][result'.http >= 400 =>
          /\ courts' = courts
          /\ time_slots' = time_slots
          /\ bookings' = bookings]_vars

\* C16 witness: the AFTER UPDATE trigger refused a status change of a
\* cancelled reservation, which is stored as cancelled
C16_Witness ==
    /\ result.op = "updateBookingStatus"
    /\ result.msg = SigTerminal
    /\ \E b \in DOMAIN bookings : bookings[b].booking_status = "cancelled"

InvalidRangeMsg == {"start_time must be before end_time", SigRange}

\* the request names a range whose start time is not before its end time
RangeInverted(r) ==
    /\ r.start_time # NoText /\ r.end_time # NoText
    /\ TimeOf(r.start_time) >= TimeOf(r.end_time)

\* C18: a slot create whose start is not before its end fails with
\* InvalidRange, never OverlapConflict, and adds no window, whatever active
\* windows exist; an update of a stored window that supplies both start and
\* end with start not before end fails with InvalidRange and changes nothing.
C18_InvertedRangeIsInvalidRange ==
    [][/\ result'.op = "createTimeSlot" =>
            \A r \in {x \in SlotCreateIn : RangeInverted(x) /\ TruthyStr(x.slot_name)} :
                createTimeSlot(r.start_time, r.end_time, r.slot_name, r.status) =>
                    /\ result'.http = 400
                    /\ result'.msg \in InvalidRangeMsg
                    /\ time_slots' = time_slots
       /\ result'.op = "updateTimeSlot" =>
            \A w \in DOMAIN time_slots, r \in {x \in SlotUpdateIn : RangeInverted(x)} :
                updateTimeSlot(w, r.start_time, r.end_time, r.slot_name, r.status) =>
                    /\ result'.http = 400
                    /\ result'.msg \in InvalidRangeMsg
                    /\ time_slots' = time_slots]_vars

\* the times the overlap condition is compared on: one more than the
\* registry stores, so that two ranges can overlap in part
RangeTimes == 0..(MaxTime + 1)

\* the half-open test: the two ranges share an instant
HalfOpenOverlap(a, b, s, e) == a < e /\ b > s

\* the active windows other than w whose range shares an instant with [a, b)
ActiveSharing(w, a, b) ==
    {x \in DOMAIN time_slots \ {w} :
        /\ time_slots[x].status = "active"
        /\ HalfOpenOverlap(a, b, time_slots[x].start_time, time_slots[x].end_time)}

\* C19: for a new range with start < end and an active window with
\* start < end, the three-case overlap condition is true exactly when
\* new.start < existing.end and new.end > existing.start; so the overlap
\* count of a create (no window excepted) or of an update of window w is
\* positive exactly when an active window shares an instant with the new
\* range, and a range that only touches an active window is not counted.
C19_ThreeCasesAreHalfOpen ==
    /\ \A a \in RangeTimes, b \in RangeTimes, s \in RangeTimes, e \in RangeTimes :
            (a < b /\ s < e) =>
                (OverlapCond(a, b, s, e) <=> HalfOpenOverlap(a, b, s, e))
    /\ \A x \in DOMAIN time_slots : time_slots[x].start_time < time_slots[x].end_time
    /\ \A w \in {0} \cup DOMAIN time_slots, a \in RangeTimes, b \in RangeTimes :
            a < b => (v_overlap_count(w, a, b) > 0 <=> ActiveSharing(w, a, b) # {})

\* C19 witness: two active windows that touch at an endpoint are both
\* stored, the later one accepted by the create that was just answered
C19_Witness ==
    /\ result.op = "createTimeSlot"
    /\ result.http = 201
    /\ \E x \in DOMAIN time_slots, y \in DOMAIN time_slots :
            /\ time_slots[x].status = "active" /\ time_slots[y].status = "active"
            /\ time_slots[x].end_time = time_slots[y].start_time
            /\ time_slots[x].start_time < time_slots[x].end_time
            /\ time_slots[y].start_time < time_slots[y].end_time

\* C20: the listing for (court, date) holds exactly the windows whose
\* status is active, each once, in ascending order of start time, each with
\* its stored times and name, and is_available is true for a window if and
\* only if no reservation of (court, that window, date) has a booking
\* status other than cancelled.
C20_ListsActiveWindowsInOrder ==
    (result.op = "getAvailableTimeSlots" /\ result.http = 200) =>
        LET q == result.data.slots
            c == result.data.court_id
            d == result.data.booking_date
        IN  /\ {q[i].slot_id : i \in DOMAIN q} = {s \in DOMAIN time_slots : SlotActive(s)}
            /\ \A i \in DOMAIN q, j \in DOMAIN q : q[i].slot_id = q[j].slot_id => i = j
            /\ \A i \in DOMAIN q, j \in DOMAIN q : i < j => q[i].start_time <= q[j].start_time
            /\ \A i \in DOMAIN q :
                    /\ q[i].start_time = time_slots[q[i].slot_id].start_time
                    /\ q[i].end_time = time_slots[q[i].slot_id].end_time
                    /\ q[i].slot_name = time_slots[q[i].slot_id].slot_name
                    /\ q[i].is_available <=> (Live(c, q[i].slot_id, d) = {})

\* C20 witness: a listing of two windows, the one with the higher id first,
\* one held and one free again after its reservation was cancelled
C20_Witness ==
    /\ result.op = "getAvailableTimeSlots"
    /\ result.http = 200
    /\ Len(result.data.slots) = 2
    /\ result.data.slots[1].slot_id > result.data.slots[2].slot_id
    /\ \E i \in {1, 2}, j \in {1, 2} :
            /\ ~result.data.slots[i].is_available
            /\ result.data.slots[j].is_available
            /\ Used(result.data.court_id, result.data.slots[j].slot_id,
                    result.data.booking_date) # {}

\* C21: cancel(id) on a stored reservation always succeeds and leaves its
\* booking status cancelled and everything else as it was; on a reservation
\* that is already cancelled it reports success and stores the same
\* reservation again.
C21_CancelSucceedsAndRepeats ==
    [][result'.op = "cancelBooking" =>
        \A id \in DOMAIN bookings :
            cancelBooking(id) =>
                /\ result'.http = 200
                /\ bookings' = [bookings EXCEPT ![id].booking_status = "cancelled"]
                /\ bookings[id].booking_status = "cancelled" => bookings' = bookings]_vars

\* C21 witness: a cancel was answered with success where the status trigger
\* is installed, and a cancelled reservation is stored
C21_Witness ==
    /\ schema = "all"
    /\ result.op = "cancelBooking"
    /\ result.http = 200
    /\ \E b \in DOMAIN bookings : bookings[b].booking_status = "cancelled"

\* C22: a successful updateStatus(id, paymentStatus?, bookingStatus?) sets
\* the supplied status fields of reservation id and nothing else: an omitted
\* status keeps its value, and the court, slot, date, customer name, phone,
\* notes, total amount and creator of id and every other reservation stay.
C22_UpdateStatusTouchesOnlyStatus ==
    [][(result'.op = "updateBookingStatus" /\ result'.http = 200) =>
        \A id \in DOMAIN bookings, pay \in {NullStr, "paid"}, bs \in BookingStatusIn :
            updateBookingStatus(id, pay, bs) =>
                /\ DOMAIN bookings' = DOMAIN bookings
                /\ \A b \in DOMAIN bookings \ {id} : bookings'[b] = bookings[b]
                /\ bookings'[id].payment_status =
                        IF pay = NullStr THEN bookings[id].payment_status ELSE pay
                /\ bookings'[id].booking_status =
                        IF bs = NullStr THEN bookings[id].booking_status ELSE bs
                /\ bookings'[id] = [bookings[id] EXCEPT
                                        !.payment_status = bookings'[id].payment_status,
                                        !.booking_status = bookings'[id].booking_status]
                /\ <<courts', time_slots'>> = <<courts, time_slots>>]_vars

\* C22 witness: a status update was accepted while two reservations are
\* stored, one paid and completed, the other still unpaid and confirmed
C22_Witness ==
    /\ result.op = "updateBookingStatus"
    /\ result.http = 200
    /\ \E a \in DOMAIN bookings, b \in DOMAIN bookings :
            /\ bookings[a].payment_status = "paid"
            /\ bookings[a].booking_status = "completed"
            /\ bookings[b].payment_status = "unpaid"
            /\ bookings[b].booking_status = "confirmed"

\* C23: updateDetails(id, customerName?, customerPhone?, notes?) with at
\* least one field supplied succeeds on a stored reservation of any booking
\* status, cancelled included, sets the supplied fields among customer
\* name, phone and notes, and changes nothing else: not the payment status,
\* booking status, court, slot, date or total amount, nor another reservation.
C23_UpdateDetailsTouchesOnlyDetails ==
    [][result'.op = "updateBookingDetails" =>
        \A id \in DOMAIN bookings :
            \A r \in {x \in DetailsIn : TruthyStr(x.customer_name) \/ TruthyStr(x.customer_phone)
                                            \/ TruthyStr(x.notes)} :
                updateBookingDetails(id, r.customer_name, r.customer_phone, r.notes) =>
                    /\ result'.http = 200
                    /\ DOMAIN bookings' = DOMAIN bookings
                    /\ \A b \in DOMAIN bookings \ {id} : bookings'[b] = bookings[b]
                    /\ bookings'[id].customer_name =
                            IF r.customer_name = NullStr THEN bookings[id].customer_name
                            ELSE r.customer_name
                    /\ bookings'[id].customer_phone =
                            IF r.customer_phone = NullStr THEN bookings[id].customer_phone
                            ELSE r.customer_phone
                    /\ bookings'[id].notes =
                            IF r.notes = NullStr THEN bookings[id].notes ELSE r.notes
                    /\ bookings'[id] = [bookings[id] EXCEPT
                                            !.customer_name = bookings'[id].customer_name,
                                            !.customer_phone = bookings'[id].customer_phone,
                                            !.notes = bookings'[id].notes]]_vars

\* C23 witness: a detail update was accepted on a cancelled reservation
\* where the status trigger is installed; its name changed, its phone did not
C23_Witness ==
    /\ schema = "all"
    /\ result.op = "updateBookingDetails"
    /\ result.http = 200
    /\ \E b \in DOMAIN bookings :
            /\ bookings[b].booking_status = "cancelled"
            /\ bookings[b].customer_name = "Bo"
            /\ bookings[b].customer_phone = "08"
    /\ \A b \in DOMAIN bookings : bookings[b].booking_status = "cancelled"

\* C24: create with a createdBy id that matches no stored principal fails
\* with InvalidPrincipal, a business-rule failure of its own and not the
\* generic storage failure, and stores no reservation; so the creator of
\* every stored reservation is a stored principal.
C24_UnknownCreatorIsInvalidPrincipal ==
    /\ [](\A b \in DOMAIN bookings : bookings[b].created_by \in AdminIds)
    /\ [][result'.op = "createBooking" =>
            \A r \in {x \in AllCreateIn : CoalesceNum(x.created_by, 1) \notin AdminIds} :
                (/\ r.booking_date >= today
                 /\ CourtActive(r.court_id) /\ SlotActive(r.slot_id)
                 /\ ~TrimIsEmpty(r.customer_name)
                 /\ Used(r.court_id, r.slot_id, r.booking_date) = {}
                 /\ Create(r)) =>
                    /\ bookings' = bookings
                    /\ result'.http = 400
                    /\ Kind(result'.msg) # "StorageUnavailable"]_vars

\* C25: no two stored courts have the same name; a create with the name of
\* a stored court, and an update that renames a court to the name of
\* another stored court, each fail with DuplicateName, a business-rule
\* failure and not the generic storage failure, and leave the registry
\* unchanged.
C25_DuplicateNameRefused ==
    /\ [](\A a \in DOMAIN courts, b \in DOMAIN courts :
              courts[a].court_name = courts[b].court_name => a = b)
    /\ [][result'.op = "createCourt" =>
            \A r \in {x \in CourtIn : TruthyStr(x.court_name) /\ TruthyNum(x.price_per_session)
                                         /\ CourtNameTaken(x.court_name, 0)} :
                createCourt(r.court_name, r.price_per_session, r.status) =>
                    /\ courts' = courts
                    /\ result'.http < 500]_vars
    /\ [][result'.op = "updateCourt" =>
            \A id \in DOMAIN courts :
                \A r \in {x \in CourtIn : TruthyStr(x.court_name)
                                             /\ CourtNameTaken(x.court_name, id)} :
                    updateCourt(id, r.court_name, r.price_per_session, r.status) =>
                        /\ courts' = courts
                        /\ result'.http < 500]_vars

\* the stored reservations that satisfy the supplied filters
Filtered(courtId, dateFrom, dateTo) ==
    {b \in DOMAIN bookings :
        /\ courtId # NullNum => bookings[b].court_id = courtId
        /\ dateFrom # NullNum => bookings[b].booking_date >= dateFrom
        /\ dateTo # NullNum => bookings[b].booking_date <= dateTo}

\* C26: history called without limit and offset returns every stored
\* reservation that satisfies the filters, however many there are.
C26_NoLimitReturnsAll ==
    [][result'.op = "getBookingHistory" =>
        \A r \in {x \in LongHistoryIn : x.limit = NullNum /\ x.offset = NullNum} :
            getBookingHistory(r.court_id, r.start_date, r.end_date, r.limit, r.offset) =>
                {result'.data.rows[i].booking_id : i \in DOMAIN result'.data.rows}
                    = Filtered(r.court_id, r.start_date, r.end_date)]_vars

\* the rows q list each reservation of ids once, with its stored date and
\* booking status, by date descending and, within a date, by start time ascending
ListsInOrder(q, ids) ==
    /\ {q[i].booking_id : i \in DOMAIN q} = ids
    /\ \A i \in DOMAIN q, j \in DOMAIN q : q[i].booking_id = q[j].booking_id => i = j
    /\ \A i \in DOMAIN q :
            /\ q[i].booking_date = bookings[q[i].booking_id].booking_date
            /\ q[i].booking_status = bookings[q[i].booking_id].booking_status
    /\ \A i \in DOMAIN q, j \in DOMAIN q :
            i < j =>
                \/ q[i].booking_date > q[j].booking_date
                \/ /\ q[i].booking_date = q[j].booking_date
                   /\ time_slots[bookings[q[i].booking_id].slot_id].start_time
                        <= time_slots[bookings[q[j].booking_id].slot_id].start_time

\* C27: history(courtId?, dateFrom?, dateTo?) returns exactly the stored
\* reservations, of every booking status, that satisfy all supplied filters,
\* ordered by date descending and, within one date, by window start time
\* ascending.
C27_HistoryIsFilteredAndOrdered ==
    [][result'.op = "getBookingHistory" =>
        \A r \in {x \in LongHistoryIn : x.limit = NullNum /\ x.offset = NullNum} :
            getBookingHistory(r.court_id, r.start_date, r.end_date, r.limit, r.offset) =>
                ListsInOrder(result'.data.rows,
                             Filtered(r.court_id, r.start_date, r.end_date))]_vars

\* the queries: get, list, history and the availability listing
ReadOps ==
    {"getBookingById", "getBookingHistory", "getAvailableTimeSlots",
     "getAllCourts", "getAllTimeSlots"}

\* C28: get(id) reports the effective status completed exactly when the
\* reservation's date is strictly before today and its stored booking
\* status is confirmed, and the stored booking status otherwise; no query
\* (get, list, history, availability) changes a stored court, window or
\* reservation, so the stored status of such a reservation stays confirmed.
C28_EffectiveStatusIsReadOnly ==
    [][/\ result'.op \in ReadOps => tables' = tables
       /\ (result'.op = "getBookingById" /\ result'.http = 200) =>
            \A id \in DOMAIN bookings :
                getBookingById(id) =>
                    /\ result'.data.booking_id = id
                    /\ result'.data.booking_status = bookings[id].booking_status
                    /\ (result'.data.actual_status = "completed")
                            <=> \/ bookings[id].booking_status = "completed"
                                \/ /\ bookings[id].booking_date < today
                                   /\ bookings[id].booking_status = "confirmed"
                    /\ result'.data.actual_status # "completed"
                            => result'.data.actual_status = bookings[id].booking_status]_vars

\* C28 witness: get reported a past confirmed reservation as completed and
\* the stored status is still confirmed
C28_Witness ==
    /\ result.op = "getBookingById"
    /\ result.http = 200
    /\ result.data.actual_status = "completed"
    /\ result.data.booking_id \in DOMAIN bookings
    /\ bookings[result.data.booking_id].booking_status = "confirmed"
    /\ bookings[result.data.booking_id].booking_date < today

\* C29: a cancelled reservation frees its triple. A listing for (court,
\* date) marks a window available when every reservation of the triple is
\* cancelled, and, with no concurrent writer, a create with valid inputs
\* succeeds whenever no non-cancelled reservation holds its triple, which
\* is when the listing reports the window available.
C29_AvailableMeansCreatable ==
    [][/\ (result'.op = "getAvailableTimeSlots" /\ result'.http = 200) =>
            \A i \in DOMAIN result'.data.slots :
                Live(result'.data.court_id, result'.data.slots[i].slot_id,
                     result'.data.booking_date) = {}
                    => result'.data.slots[i].is_available
       /\ result'.op = "createBooking" =>
            \A r \in AvailCreateIn :
                (/\ ValidCreate(r)
                 /\ Live(r.court_id, r.slot_id, r.booking_date) = {}
                 /\ Create(r)) =>
                    /\ result'.http = 201
                    /\ Live(r.court_id, r.slot_id, r.booking_date)' # {}]_vars

\* C30: when delete(court) runs beside a create of a reservation on that
\* court, either the delete fails with ConflictInUse or the create fails,
\* and the court is never removed while a reservation of it that is not
\* cancelled is stored.
C30_DeleteOrCreateFails ==
    /\ \A b \in DOMAIN bookings :
            bookings[b].booking_status # "cancelled" => bookings[b].court_id \in DOMAIN courts
    /\ (/\ calls[1].pc = "done" /\ calls[2].pc = "done"
        /\ calls[1].req.court_id = calls[2].req.court_id)
            => \/ calls[2].msg = "Cannot delete court with active bookings"
               \/ calls[1].http # 201

\* C31: with the date held fixed, every stored reservation that is not
\* cancelled and is dated today or later references a window whose status
\* is active.
C31_LiveReservationsOnActiveWindows ==
    \A b \in DOMAIN bookings :
        (bookings[b].booking_status # "cancelled" /\ bookings[b].booking_date >= today)
            => /\ bookings[b].slot_id \in DOMAIN time_slots
               /\ time_slots[bookings[b].slot_id].status = "active"

\* C32: every stored reservation has a customer name that is neither empty
\* nor made of whitespace only, whatever create and updateDetails were sent.
C32_CustomerNameNeverBlank ==
    \A b \in DOMAIN bookings :
        /\ bookings[b].customer_name # NullStr
        /\ ~TrimIsEmpty(bookings[b].customer_name)

\* C33: on a database that has the counting function, for every court and
\* every date not before today, the count of available windows (active
\* windows minus reservations of the court and date that are not cancelled)
\* is the number of windows the availability listing marks available, and
\* is not negative.
C33_CountMatchesListing ==
    schema = "all" =>
        \A c \in DOMAIN courts, d \in Days :
            d >= today =>
                /\ get_available_slots_count(c, d) >= 0
                /\ \A slots \in sp_get_available_time_slots(c, d) :
                        Cardinality({i \in DOMAIN slots : slots[i].is_available})
                            = get_available_slots_count(c, d)

\* the count was selected for a date that has one reservation held, one
\* cancelled and a window left: it answered 1
C33_Witness ==
    /\ result.op = "get_available_slots_count"
    /\ result.data.booking_date >= today
    /\ result.data.available_slots = 1
    /\ Cardinality(AvailableSlotIds) = 2
    /\ \E b \in DOMAIN bookings :
            /\ bookings[b].court_id = result.data.court_id
            /\ bookings[b].booking_date = result.data.booking_date
            /\ bookings[b].booking_status = "cancelled"

\* the create request is complete and names a range with start before end,
\* as texts and as times
RangeValid(r) ==
    /\ r.start_time # NoText /\ r.end_time # NoText /\ TruthyStr(r.slot_name)
    /\ StrLess(r.start_time, r.end_time)
    /\ TimeOf(r.start_time) < TimeOf(r.end_time)

\* C34: a slot create with a valid range that shares no instant with an
\* active window succeeds, also when the range overlaps an inactive window
\* or has the start and end of one.
C34_InactiveNeverBlocksCreate ==
    [][result'.op = "createTimeSlot" =>
            \A r \in {x \in SlotCreateIn : RangeValid(x)} :
                (/\ createTimeSlot(r.start_time, r.end_time, r.slot_name, r.status)
                 /\ ActiveSharing(0, TimeOf(r.start_time), TimeOf(r.end_time)) = {})
                    => result'.http = 201]_vars

\* the update requests that supply exactly one of start and end
OneSidedUpdateIn ==
    {r \in SlotUpdateIn : (r.start_time = NoText) # (r.end_time = NoText)}

\* C35: every stored window has its start before its end, after every
\* create and update of the slot registry; an update that supplies only one
\* of start and end leaves both stored times as they were (no step that
\* changes a stored time is the step of such an update).
C35_StoredWindowsOrdered ==
    /\ [](\A x \in DOMAIN time_slots : time_slots[x].start_time < time_slots[x].end_time)
    /\ [][(/\ result'.op = "updateTimeSlot"
           /\ \E x \in DOMAIN time_slots :
                \/ time_slots'[x].start_time # time_slots[x].start_time
                \/ time_slots'[x].end_time # time_slots[x].end_time)
            => \A w \in DOMAIN time_slots, r \in OneSidedUpdateIn :
                    ~updateTimeSlot(w, r.start_time, r.end_time, r.slot_name, r.status)]_vars

\* C35 witness: an update was just accepted, a window it renamed is stored
\* beside a second one, and both have their start before their end
C35_Witness ==
    /\ result.op = "updateTimeSlot"
    /\ result.http = 200
    /\ Cardinality(DOMAIN time_slots) = 2
    /\ \E x \in DOMAIN time_slots : time_slots[x].slot_name = "S1"
    /\ \A x \in DOMAIN time_slots : time_slots[x].start_time < time_slots[x].end_time

====
